---- MODULE Spec2Model ----
(***************************************************************************)
(* Mini-Docker: the lifecycle of one container id through the metadata     *)
(* store (create / start / stop / remove), the two-pipe fork barrier of    *)
(* Container.start and the launch pipeline of Container._run_container.    *)
(*                                                                         *)
(* The controller that calls start (cmd_run) and the forked container init *)
(* are two processes that take steps; stop and remove are issued by other  *)
(* controller invocations and may run at any moment.  Every syscall whose  *)
(* outcome the code handles (unshare, mount, pivot_root, prctl, kill,      *)
(* rmdir, ...) succeeds or fails by a nondeterministic choice.             *)
(***************************************************************************)
EXTENDS Integers, Sequences, FiniteSets, TLC

\* Bound: number of times start forks an init for the container.
MaxLaunches == 2

\* pid: Optional[int] = None
NoPid == 0
\* exit_code / started_at / finished_at: Optional = None
NoCode == 256
NoTime == 0

VARIABLES
    rec,          \* containers/<id>/config.json (the ContainerConfig record)
    everCreated,  \* create has allocated the id
    containerDir, \* $DATA_ROOT/containers/<id>/ exists
    overlayDir,   \* $DATA_ROOT/overlay/<id>/ exists
    cgroupDir,    \* <cgroup-root>/mini-docker/<id>/ exists
    overlayMounted, \* a teardown mount point is mounted in the controller's namespace
    inCgroup,     \* the init has been written to cgroup.procs
    extraProcs,   \* descendants of the payload are alive in the cgroup
    nLaunch,      \* forks so far; the pid of the current init
    proc,         \* state of the init forked last
    exitStatus,   \* wait status of the init once it has exited
    detach,       \* cmd_run --detach of the launching controller
    lcfg,         \* the config the launching controller loaded in start
    parentPc,     \* position of the launching controller
    childPc,      \* position of the init in _run_container
    parentFds,    \* sync pipe ends open in the controller
    childFds,     \* sync pipe ends open in the init
    c2p,          \* bytes in the child -> parent pipe
    p2c,          \* bytes in the parent -> child pipe
    gotU,         \* the controller's read of c2p returned a byte
    gotX,         \* the init's read of p2c returned a byte
    rootfs_to_pivot, \* the init's local rootfs_to_pivot: the root it pivots into
    parentTrace,  \* steps the controller took in this launch, in order
    childTrace,   \* steps the init took in this launch, in order
    waitCode,     \* exit_code computed by cmd_run from waitpid
    lastCall,     \* the API call that made the latest step, if it was one:
                  \* what it returned, the cleanup steps it attempted, the
                  \* signals it sent
    isRoot,       \* check_root() of the launching controller
    mounts,       \* mount points under overlay/<id> that are mounted
    paths,        \* mount points under overlay/<id> that exist as paths
    teardown,     \* what the latest cleanup_overlay call did, in order
    seccomp,      \* the Seccomp object: its whitelist self.allowed
    filter_prog,  \* the BPF program built last
    seccompCall,  \* the latest call on the seccomp module and its result
    containers,   \* $DATA_ROOT/containers: id -> contents of config.json
    pods,         \* $DATA_ROOT/pods: id -> the pod's config.json
    storeCall     \* the latest call on the store and what it returned

vars == <<rec, everCreated, containerDir, overlayDir, cgroupDir, overlayMounted,
          inCgroup, extraProcs, nLaunch, proc, exitStatus, detach, lcfg,
          parentPc, childPc, parentFds, childFds, c2p, p2c, gotU, gotX,
          rootfs_to_pivot,
          parentTrace, childTrace, waitCode, lastCall, isRoot, mounts, paths,
          teardown, seccomp, filter_prog, seccompCall, containers, pods,
          storeCall>>

storeVars  == <<rec, everCreated, containerDir>>
dirVars    == <<overlayDir, cgroupDir, overlayMounted>>
procVars   == <<inCgroup, extraProcs, nLaunch, proc, exitStatus>>
parentVars == <<detach, lcfg, parentPc, parentFds, gotU, parentTrace, waitCode,
                isRoot>>
childVars  == <<childPc, childFds, gotX, childTrace, rootfs_to_pivot>>
pipeVars   == <<c2p, p2c>>
\* The overlay mount table and the seccomp module, which the lifecycle
\* actions leave alone.
mountVars   == <<mounts, paths, teardown>>
seccompVars == <<seccomp, filter_prog, seccompCall>>
\* The store of all container and pod records.
registryVars == <<containers, pods, storeCall>>

Range(s) == {s[i] : i \in 1..Len(s)}

----------------------------------------------------------------------------
(* metadata.py *)

\* ContainerConfig: the fields the lifecycle reads or writes.
ContainerConfig(rootless, use_overlay, seccomp_enabled, pod) ==
    [present |-> TRUE, status |-> "created", pid |-> NoPid,
     started_at |-> NoTime, finished_at |-> NoTime, exit_code |-> NoCode,
     net_ip |-> FALSE, rootless |-> rootless, use_overlay |-> use_overlay,
     seccomp_enabled |-> seccomp_enabled, pod_id |-> pod]

\* No config.json on disk.
NoRecord ==
    [present |-> FALSE, status |-> "created", pid |-> NoPid,
     started_at |-> NoTime, finished_at |-> NoTime, exit_code |-> NoCode,
     net_ip |-> FALSE, rootless |-> FALSE, use_overlay |-> FALSE,
     seccomp_enabled |-> FALSE, pod_id |-> FALSE]

\* load_container_config: None unless the directory and config.json exist.
load_container_config(r, dir) == dir /\ r.present

\* update_container_status without the finished_at assignment.
update_status_keeps_finished(r, dir, status, pid, exit_code, now) ==
    IF ~load_container_config(r, dir) THEN r
    ELSE [r EXCEPT
            !.status = status,
            !.pid = IF pid # NoPid THEN pid ELSE @,
            !.started_at = IF status = "running" /\ @ = NoTime THEN now ELSE @,
            !.exit_code = IF status = "stopped" /\ exit_code # NoCode
                          THEN exit_code ELSE @]

\* update_container_status(id, status, pid, exit_code): read-modify-write.
\* now stands for time.time(), counted in launches.
update_container_status(r, dir, status, pid, exit_code, now) ==
    IF ~load_container_config(r, dir) THEN r
    ELSE [r EXCEPT
            !.status = status,
            !.pid = IF pid # NoPid THEN pid ELSE @,
            !.started_at = IF status = "running" /\ @ = NoTime THEN now ELSE @,
            !.finished_at = IF status = "stopped" THEN now ELSE @,
            !.exit_code = IF status = "stopped" /\ exit_code # NoCode
                          THEN exit_code ELSE @]

----------------------------------------------------------------------------
(* Processes *)

Alive == {"setup", "payload"}

\* The controller that forked the init is still running: an exited init
\* stays a zombie until that controller waits for it or exits.
ParentAlive == parentPc # "idle"

\* State of the process a pid names.  Inits of earlier launches are gone.
PidState(w, p) == IF p = nLaunch THEN w.proc ELSE "gone"

\* The part of the state that stop and remove read and write; sigs collects
\* the signals the call sends.
World ==
    [rec |-> rec, containerDir |-> containerDir, overlayDir |-> overlayDir,
     cgroupDir |-> cgroupDir, overlayMounted |-> overlayMounted,
     extraProcs |-> extraProcs, proc |-> proc, exitStatus |-> exitStatus,
     childPc |-> childPc, childFds |-> childFds, sigs |-> <<>>]

\* The init dies of a signal.
Killed(w) ==
    IF w.proc \in Alive
    THEN [w EXCEPT !.proc = IF ParentAlive THEN "zombie" ELSE "gone",
                   !.exitStatus = "signal",
                   !.childPc = "exited",
                   !.childFds = {}]
    ELSE w

----------------------------------------------------------------------------
(* Container.stop, called by a controller that is not the init's parent *)

\* SIGTERM ends the init: a child still in _run_container has the default
\* disposition; a payload may ignore the signal.
DiesOnTerm(w, payloadDies) ==
    w.proc = "setup" \/ (w.proc = "payload" /\ payloadDies)

\* kill(pid, 0) keeps succeeding for the whole grace window: the process
\* survives SIGTERM, or it is a zombie its parent does not reap in time.
StillThere(w, timeout, payloadDies, zombieStays) ==
    \/ timeout = 0
    \/ w.proc = "zombie" /\ zombieStays
    \/ w.proc \in Alive /\ ~DiesOnTerm(w, payloadDies)
    \/ w.proc \in Alive /\ DiesOnTerm(w, payloadDies) /\ ParentAlive
           /\ zombieStays

\* stop reaches os.kill(pid, SIGTERM): the record is running and kill(pid, 0)
\* found the process.
Signals(w) ==
    /\ load_container_config(w.rec, w.containerDir)
    /\ w.rec.status = "running"
    /\ w.rec.pid # NoPid
    /\ PidState(w, w.rec.pid) # "gone"

\* "for _ in range(timeout * 10)": the number of polls of kill(pid, 0),
\* 100 ms apart.
GracePolls(timeout) == timeout * 10

\* How the polling loop ends: "none" when there is nothing to iterate,
\* "exited" when a poll raises ESRCH (break), "expired" when every poll
\* found the process.
grace_loop(timeout, exits) ==
    IF GracePolls(timeout) = 0 THEN "none"
    ELSE IF exits THEN "exited"
    ELSE "expired"

\* stop with the SIGKILL after the loop instead of in its else branch.
SendsKillAlways(window) == TRUE

\* "for ...: ... break  else: os.kill(pid, SIGKILL)": the else branch runs
\* unless the loop was left by break.
SendsKill(window) == window # "exited"

\* stop without the test of the status.
stop_any_status(w, timeout, killOk, payloadDies, zombieStays) ==
    IF ~load_container_config(w.rec, w.containerDir)
    THEN [w |-> w, result |-> "NotFound", window |-> "none"]
    ELSE IF w.rec.pid = NoPid \/ PidState(w, w.rec.pid) = "gone"
    THEN [w |-> [w EXCEPT !.rec = update_container_status(
                     w.rec, w.containerDir, "stopped", NoPid, NoCode,
                     nLaunch)],
          result |-> "True", window |-> "none"]
    ELSE IF ~killOk
    THEN [w |-> w, result |-> "StopFailed", window |-> "none"]
    ELSE [w |-> [Killed(w) EXCEPT
                   !.sigs = w.sigs \o <<"SIGTERM">>,
                   !.rec = update_container_status(
                               w.rec, w.containerDir, "stopped", NoPid, 0,
                               nLaunch)],
          result |-> "True", window |-> "none"]

\* stop(id, timeout).  ~killOk: os.kill raises EPERM.  The result is the
\* world after the call together with what the call returned.
stop(w, timeout, killOk, payloadDies, zombieStays) ==
    IF ~load_container_config(w.rec, w.containerDir)
    THEN [w |-> w, result |-> "NotFound", window |-> "none"]
    ELSE IF w.rec.status # "running"
    THEN [w |-> w, result |-> "True", window |-> "none"]
    ELSE IF w.rec.pid = NoPid \/ PidState(w, w.rec.pid) = "gone"
    THEN [w |-> [w EXCEPT !.rec = update_container_status(
                     w.rec, w.containerDir, "stopped", NoPid, NoCode,
                     nLaunch)],
          result |-> "True", window |-> "none"]
    ELSE IF ~killOk
    THEN [w |-> w, result |-> "StopFailed", window |-> "none"]
    ELSE LET window == grace_loop(timeout,
                           ~StillThere(w, timeout, payloadDies, zombieStays))
             kill == SendsKill(window)
             w1 == [Killed(w) EXCEPT
                      !.sigs = IF kill THEN w.sigs \o <<"SIGTERM", "SIGKILL">>
                               ELSE w.sigs \o <<"SIGTERM">>]
         IN  \* waitpid on a pid that is not a child: ECHILD, exit_code = 0
             [w |-> [w1 EXCEPT !.rec = update_container_status(
                        w.rec, w.containerDir, "stopped", NoPid, 0,
                        nLaunch)],
              result |-> "True", window |-> window]

\* stop(id, timeout) with the time SIGKILL takes.  os.kill(pid, SIGKILL)
\* returns once the signal is queued; stop does not poll kill(pid, 0) after
\* it, and its waitpid on a pid that is not its child raises
\* ChildProcessError at once, so the record is written without waiting for
\* the init to finish exiting.  diedInTime is the outcome of that race, for
\* an init that the grace window did not see exit (no window, or SIGTERM
\* ignored).
stop_landing(w, timeout, killOk, payloadDies, zombieStays, diedInTime) ==
    LET s == stop(w, timeout, killOk, payloadDies, zombieStays)
        raced == /\ s.result = "True"
                 /\ s.w.sigs # <<>>
                 /\ s.w.sigs[Len(s.w.sigs)] = "SIGKILL"
                 /\ w.proc \in Alive
                 /\ timeout = 0 \/ ~DiesOnTerm(w, payloadDies)
    IN  IF raced /\ ~diedInTime
        THEN [s EXCEPT !.w.proc = w.proc, !.w.exitStatus = w.exitStatus,
                       !.w.childPc = w.childPc, !.w.childFds = w.childFds]
        ELSE s

----------------------------------------------------------------------------
(* filesystem.cleanup_overlay, cgroups.delete_cgroup, delete_container_config *)

\* The paths cleanup_overlay unmounts, in its order.
MountPoints == <<"dev/pts", "dev", "sys", "proc", "merged", "lower">>

\* cleanup_overlay(id): umount(path, MNT_DETACH) on every mount point that
\* exists, FilesystemError swallowed; then shutil.rmtree(overlay/<id>),
\* OSError swallowed.  rmtree cannot remove a tree that still holds a mount.
cleanup_overlay(w, umountOk, rmtreeOk) ==
    LET left == w.overlayMounted /\ ~umountOk
    IN  [w EXCEPT !.overlayMounted = left,
                  !.overlayDir = @ /\ (left \/ ~rmtreeOk)]

\* Processes listed in cgroup.procs.
InitInCgroup(w) == inCgroup /\ w.proc \in Alive
Populated(w) == InitInCgroup(w) \/ w.extraProcs

\* delete_cgroup(path): SIGKILL every pid of cgroup.procs, then os.rmdir at
\* once (OSError swallowed).  rmdir of a cgroup fails while a killed process
\* has not finished exiting; diedInTime is the outcome of that race.
delete_cgroup(w, diedInTime) ==
    LET w1 == IF w.cgroupDir /\ Populated(w)
              THEN [(IF InitInCgroup(w) THEN Killed(w) ELSE w) EXCEPT
                       !.extraProcs = FALSE,
                       !.sigs = w.sigs \o <<"SIGKILL">>]
              ELSE w
    IN  [w1 EXCEPT !.cgroupDir = @ /\ Populated(w) /\ ~diedInTime]

\* delete_container_config(id): False when find_container_id finds no
\* directory or shutil.rmtree fails.
delete_container_config(w, rmOk) ==
    IF w.containerDir /\ rmOk
    THEN [w |-> [w EXCEPT !.containerDir = FALSE, !.rec = NoRecord],
          result |-> "True"]
    ELSE [w |-> w, result |-> "False"]

----------------------------------------------------------------------------
(* Container.remove *)

\* remove(force=True) stops with timeout=5.
ForceRemoveTimeout == 5

\* remove without the status test.
RemoveAnyStatus(config, force) == FALSE

\* remove: "if config.status == 'running': if force: stop() else: raise".
RunningNeedsForce(config, force) == config.status = "running" /\ ~force

\* remove with its steps in one try block: the first step that raises is
\* the last one attempted.
cleanup_unwrapped(config, raised) ==
    LET all == (IF config.use_overlay THEN <<"overlay">> ELSE <<>>)
               \o <<"cgroup", "network">>
               \o (IF config.pod_id THEN <<"pod">> ELSE <<>>)
               \o <<"delete">>
        hit == {i \in 1..Len(all) : all[i] \in raised}
    IN  IF hit = {} THEN all
        ELSE SubSeq(all, 1, CHOOSE i \in hit : \A j \in hit : i <= j)

\* The steps remove attempts for a record, in order.  raised is the set of
\* steps whose call raises: every step sits in its own try/except that
\* appends to errors, so a raising step does not end the sequence.
cleanup_sequence(config, raised) ==
    (IF config.use_overlay THEN <<"overlay">> ELSE <<>>)
    \o <<"cgroup", "network">>
    \o (IF config.pod_id THEN <<"pod">> ELSE <<>>)
    \o <<"delete">>

\* An outcome the environment decides, where the call gets that far.
Choices(relevant) == IF relevant THEN BOOLEAN ELSE {TRUE}

\* What the environment does to one remove call: the outcomes of the
\* system calls the call makes on world w.
RemoveEnv(w, force) ==
    LET go == /\ load_container_config(w.rec, w.containerDir)
              /\ ~(w.rec.status = "running" /\ ~force)
        sig == go /\ Signals(w)
    IN  {e \in [killOk : Choices(sig),
                payloadDies : Choices(sig /\ w.proc = "payload"),
                zombieStays : Choices(sig /\ parentPc = "p_wait"),
                umountOk : Choices(go /\ w.rec.use_overlay /\ w.overlayMounted),
                rmtreeOk : Choices(go /\ w.rec.use_overlay /\ w.overlayDir),
                diedInTime : Choices(go /\ w.cgroupDir),
                netOk : Choices(go),
                podOk : Choices(go /\ w.rec.pod_id),
                rmOk : Choices(go)] :
            \* a raising stop ends the call; a mount left behind decides
            \* the rmtree
            /\ ~e.killOk => /\ e.payloadDies /\ e.zombieStays
                             /\ e.umountOk /\ e.rmtreeOk /\ e.diedInTime
                             /\ e.netOk /\ e.podOk /\ e.rmOk
            /\ ~e.umountOk => e.rmtreeOk}

\* The steps of a remove call that raise.
Raised(e) ==
    {x \in {"network"} : ~e.netOk} \cup {x \in {"pod"} : ~e.podOk}

\* remove(id, force).  The result carries the world after the call, what
\* the call returned or raised, the steps attempted and those that failed.
remove(w, force, e) ==
    IF ~load_container_config(w.rec, w.containerDir)
    THEN [w |-> w, result |-> "NotFound", steps |-> <<>>, failed |-> {}]
    ELSE IF RunningNeedsForce(w.rec, force)
    THEN [w |-> w, result |-> "Conflict", steps |-> <<>>, failed |-> {}]
    ELSE
    LET config == w.rec
        s  == IF config.status = "running"
              THEN stop(w, ForceRemoveTimeout, e.killOk, e.payloadDies,
                        e.zombieStays)
              ELSE [w |-> w, result |-> "True", window |-> "none"]
        steps == cleanup_sequence(config, Raised(e))
        did(x) == x \in Range(steps)
        w1 == IF did("overlay")
              THEN cleanup_overlay(s.w, e.umountOk, e.rmtreeOk) ELSE s.w
        w2 == IF did("cgroup") THEN delete_cgroup(w1, e.diedInTime) ELSE w1
        d  == IF did("delete") THEN delete_container_config(w2, e.rmOk)
              ELSE [w |-> w2, result |-> "Raised"]
        failed == {x \in {"overlay"} : did(x) /\ w1.overlayDir}
                  \cup {x \in {"cgroup"} : did(x) /\ w2.cgroupDir}
                  \cup {x \in Raised(e) : did(x)}
                  \cup {x \in {"delete"} : did(x) /\ d.result = "False"}
    IN  IF s.result = "StopFailed"
        THEN [w |-> s.w, result |-> "StopFailed", steps |-> <<>>,
              failed |-> {}]
        ELSE [w |-> d.w, result |-> d.result, steps |-> steps,
              failed |-> failed]

----------------------------------------------------------------------------
(* filesystem.py: the mount points of overlay/<id> *)

\* The order in which the init's setup mounts them: setup_overlay_filesystem
\* (lower, merged), then setup_chroot_filesystem or setup_pivot_root (proc,
\* sys, dev, dev/pts).
SetupOrder == <<"lower", "merged", "proc", "sys", "dev", "dev/pts">>

Reverse(s) == [i \in 1..Len(s) |-> s[Len(s) + 1 - i]]

\* cleanup_overlay's loop with the try/except around the whole loop: the
\* first umount that raises ends it.
RECURSIVE umount_loop_abort(_, _, _)
umount_loop_abort(points, exist, raises) ==
    IF points = <<>> THEN <<>>
    ELSE IF Head(points) \notin exist
    THEN umount_loop_abort(Tail(points), exist, raises)
    ELSE IF Head(points) \in raises THEN <<Head(points)>>
    ELSE <<Head(points)>> \o umount_loop_abort(Tail(points), exist, raises)

\* "for path in mount_points: if os.path.exists(path): try: umount(path,
\*  MNT_DETACH) except FilesystemError: pass": the umount calls made, in
\* order.  raises is the set of paths whose umount fails.
RECURSIVE umount_loop(_, _, _)
umount_loop(points, exist, raises) ==
    IF points = <<>> THEN <<>>
    ELSE IF Head(points) \notin exist
    THEN umount_loop(Tail(points), exist, raises)
    ELSE <<Head(points)>> \o umount_loop(Tail(points), exist, raises)

----------------------------------------------------------------------------
(* seccomp.py *)

\* The syscall names the model draws from: two of the default whitelist, one
\* the table knows that is neither whitelisted nor forbidden, one forbidden
\* name the table knows, one forbidden name it does not know, and a name
\* that is no syscall.
SyscallNames == {"read", "openat", "chroot", "mount", "ptrace", "bogus"}

\* SYSCALLS: name -> x86-64 syscall number.
SYSCALLS == [read |-> 0, chroot |-> 161, mount |-> 165, openat |-> 257]

ALLOWED_SYSCALLS_WHITELIST == {"read", "openat"}
ABSOLUTELY_FORBIDDEN_SYSCALLS == {"mount", "ptrace"}

\* AUDIT_ARCH_X86_64 = 0xC000003E, by its machine number (the low 16 bits).
AUDIT_ARCH_X86_64 == 62

\* SECCOMP_RET_ALLOW = 0x7FFF0000 and SECCOMP_RET_KILL_PROCESS = 0x80000000,
\* by their action (the high 16 bits).
SECCOMP_RET_ALLOW == 32767
SECCOMP_RET_KILL_PROCESS == 32768

\* Offsets into struct seccomp_data.
SECCOMP_DATA_NR_OFFSET == 0
SECCOMP_DATA_ARCH_OFFSET == 4

\* BPF_LD | BPF_W | BPF_ABS, BPF_JMP | BPF_JEQ | BPF_K, BPF_RET | BPF_K
BPF_LD_W_ABS == 32
BPF_JMP_JEQ_K == 21
BPF_RET_K == 6

\* struct sock_filter {code, jt, jf, k}.  jt and jf are one byte each; the
\* table holds fewer than 256 names that can be allowed.
bpf_stmt(code, k) == [code |-> code, jt |-> 0, jf |-> 0, k |-> k]
bpf_jump(code, k, jt, jf) == [code |-> code, jt |-> jt, jf |-> jf, k |-> k]

\* sorted(set of numbers)
RECURSIVE sorted(_)
sorted(S) ==
    IF S = {} THEN <<>>
    ELSE LET m == CHOOSE x \in S : \A y \in S : x <= y
         IN  <<m>> \o sorted(S \ {m})

\* The numbers build_whitelist_filter compares against: names that are
\* forbidden or not in SYSCALLS are skipped.
allowed_numbers(allowed_syscalls) ==
    {SYSCALLS[name] :
        name \in {n \in allowed_syscalls :
                     /\ n \notin ABSOLUTELY_FORBIDDEN_SYSCALLS
                     /\ n \in DOMAIN SYSCALLS}}

\* build_whitelist_filter with "remaining" as the jump offset: every jump
\* lands one instruction early, on the KILL.
build_filter_short_jump(allowed_syscalls) ==
    LET sorted_numbers == sorted(allowed_numbers(allowed_syscalls))
        num_syscalls == Len(sorted_numbers)
    IN  <<bpf_stmt(BPF_LD_W_ABS, SECCOMP_DATA_ARCH_OFFSET),
          bpf_jump(BPF_JMP_JEQ_K, AUDIT_ARCH_X86_64, 1, 0),
          bpf_stmt(BPF_RET_K, SECCOMP_RET_KILL_PROCESS),
          bpf_stmt(BPF_LD_W_ABS, SECCOMP_DATA_NR_OFFSET)>>
        \o [i \in 1..num_syscalls |->
               bpf_jump(BPF_JMP_JEQ_K, sorted_numbers[i], num_syscalls - i, 0)]
        \o <<bpf_stmt(BPF_RET_K, SECCOMP_RET_KILL_PROCESS),
             bpf_stmt(BPF_RET_K, SECCOMP_RET_ALLOW)>>

\* build_whitelist_filter(allowed_syscalls): load arch, kill unless x86-64,
\* load nr, one JEQ per allowed number in ascending order with
\* jt = remaining + 1, then KILL_PROCESS, then ALLOW.  (enumerate counts
\* from 0: remaining = num_syscalls - i - 1.)
build_whitelist_filter(allowed_syscalls) ==
    LET sorted_numbers == sorted(allowed_numbers(allowed_syscalls))
        num_syscalls == Len(sorted_numbers)
    IN  <<bpf_stmt(BPF_LD_W_ABS, SECCOMP_DATA_ARCH_OFFSET),
          bpf_jump(BPF_JMP_JEQ_K, AUDIT_ARCH_X86_64, 1, 0),
          bpf_stmt(BPF_RET_K, SECCOMP_RET_KILL_PROCESS),
          bpf_stmt(BPF_LD_W_ABS, SECCOMP_DATA_NR_OFFSET)>>
        \o [i \in 1..num_syscalls |->
               bpf_jump(BPF_JMP_JEQ_K, sorted_numbers[i],
                        (num_syscalls - i) + 1, 0)]
        \o <<bpf_stmt(BPF_RET_K, SECCOMP_RET_KILL_PROCESS),
             bpf_stmt(BPF_RET_K, SECCOMP_RET_ALLOW)>>

\* What the kernel returns for a program that runs off its end (it rejects
\* such a program when the filter is installed).
BadProgram == 0 - 1

\* The kernel's evaluation of a classic BPF program on a seccomp_data:
\* instruction pc (counted from 1) with accumulator acc.
RECURSIVE bpf_run(_, _, _, _)
bpf_run(prog, pc, acc, data) ==
    IF pc > Len(prog) THEN BadProgram
    ELSE LET ins == prog[pc]
         IN  CASE ins.code = BPF_LD_W_ABS ->
                    bpf_run(prog, pc + 1,
                            IF ins.k = SECCOMP_DATA_ARCH_OFFSET
                            THEN data.arch ELSE data.nr,
                            data)
               [] ins.code = BPF_JMP_JEQ_K ->
                    bpf_run(prog,
                            pc + 1 + (IF acc = ins.k THEN ins.jt ELSE ins.jf),
                            acc, data)
               [] ins.code = BPF_RET_K -> ins.k

\* No Seccomp object, no call yet.
NoSeccomp == [made |-> FALSE, allowed |-> {}]
NoSeccompCall == [op |-> "none", name |-> "none", result |-> FALSE,
                  arch |-> 0, nr |-> 0, ret |-> 0]
NoFilter == [whitelist |-> {}, prog |-> <<>>]

\* add_allowed that adds whatever the table knows.
add_allowed_unchecked(allowed, syscall) ==
    IF syscall \in DOMAIN SYSCALLS
    THEN [allowed |-> allowed \cup {syscall}, result |-> TRUE]
    ELSE [allowed |-> allowed, result |-> FALSE]

\* Seccomp.add_allowed(syscall): the whitelist afterwards and the return
\* value.
add_allowed(allowed, syscall) ==
    IF syscall \in ABSOLUTELY_FORBIDDEN_SYSCALLS
    THEN [allowed |-> allowed, result |-> FALSE]
    ELSE IF syscall \in DOMAIN SYSCALLS
    THEN [allowed |-> allowed \cup {syscall}, result |-> TRUE]
    ELSE [allowed |-> allowed, result |-> FALSE]

\* Seccomp.remove_allowed(syscall): self.allowed.discard(syscall)
remove_allowed(allowed, syscall) == allowed \ {syscall}

\* apply_seccomp_filter(whitelist): "allowed = whitelist.copy();
\* allowed -= ABSOLUTELY_FORBIDDEN_SYSCALLS"; the set the filter is built
\* from.
apply_allowed(whitelist) == whitelist \ ABSOLUTELY_FORBIDDEN_SYSCALLS

----------------------------------------------------------------------------
(* metadata.py, utils.py: the store of container records *)

\* Strings are sequences of characters.  The ids generate_container_id
\* returns (12 random hexadecimal digits) are equally long.
Ids == {<<1, 1>>, <<1, 2>>}

\* None, for the Optional[int] fields, and for the Optional[str] fields and
\* results, where the code tests "if not x" and the empty string counts as
\* None.
None == 0 - 1
NoStr == <<>>

\* str.startswith
startswith(s, prefix) ==
    Len(prefix) <= Len(s) /\ SubSeq(s, 1, Len(prefix)) = prefix

\* ResourceLimits(cpu_quota, memory_mb, max_pids)
ResourceLimits(cpu_quota, memory_mb, max_pids) ==
    [cls |-> "ResourceLimits", cpu_quota |-> cpu_quota, cpu_period |-> 100000,
     memory_mb |-> memory_mb, max_pids |-> max_pids]

\* NetworkConfig()
NetworkConfig ==
    [cls |-> "NetworkConfig", ip |-> NoStr, mac |-> NoStr,
     gateway |-> "10.0.0.1", veth_host |-> NoStr, veth_container |-> NoStr,
     bridge |-> "mini-docker0"]

\* What load_container_config returns when it returns None.
NoConfig == [cls |-> "None"]

\* ContainerConfig(**kw) with __post_init__: an empty id, name or hostname
\* is replaced by generate_container_id(), generate_container_name() and the
\* name.  new_id and new_name are what the generators return.
NewContainerConfig(kw, new_id, new_name) ==
    LET id == IF kw.id = NoStr THEN new_id ELSE kw.id
        name == IF kw.name = NoStr THEN new_name ELSE kw.name
    IN  [cls |-> "ContainerConfig", id |-> id, name |-> name,
         hostname |-> IF kw.hostname = NoStr THEN name ELSE kw.hostname,
         command |-> kw.command, resources |-> kw.resources,
         network |-> kw.network, namespaces |-> kw.namespaces,
         env |-> kw.env, pod_id |-> kw.pod_id, status |-> kw.status,
         pid |-> kw.pid]

\* The fields of the dataclasses.
Fields(cls) ==
    CASE cls = "ContainerConfig" ->
             {"id", "name", "hostname", "command", "resources", "network",
              "namespaces", "env", "pod_id", "status", "pid"}
      [] cls = "ResourceLimits" ->
             {"cpu_quota", "cpu_period", "memory_mb", "max_pids"}
      [] cls = "NetworkConfig" ->
             {"ip", "mac", "gateway", "veth_host", "veth_container", "bridge"}

\* dataclasses.asdict on a ResourceLimits or NetworkConfig, and on a
\* ContainerConfig, whose nested dataclasses it converts too.  json.dump
\* writes the dict as it is: every key is a string, every value a string, a
\* number, null, a list or a dict.
asdict(config) ==
    [f \in Fields("ContainerConfig") |->
        IF f \in {"resources", "network"}
        THEN [g \in Fields(config[f].cls) |-> config[f][g]]
        ELSE config[f]]

\* cls(**data) for a dict whose keys are all fields of cls.
FromDict(cls, data) == [f \in Fields(cls) \cup {"cls"} |->
                           IF f = "cls" THEN cls ELSE data[f]]

\* save_container_config(config): makedirs(containers/<id>), then json.dump
\* of asdict(config) over config.json.
save_container_config(dir, config) ==
    [id \in DOMAIN dir \cup {config.id} |->
        IF id = config.id THEN asdict(config) ELSE dir[id]]

\* find_container_id(prefix) and load_container_config(container_id), which
\* call each other.  order is what os.listdir(CONTAINERS_PATH) returns; i is
\* the position of the loop.
RECURSIVE find_from(_, _, _, _)
RECURSIVE load_config(_, _, _)
find_from(dir, order, prefix, i) ==
    IF i > Len(order) THEN NoStr
    ELSE IF startswith(order[i], prefix) THEN order[i]
    ELSE LET config == load_config(dir, order, order[i])
         IN  IF config # NoConfig /\ config.name = prefix THEN order[i]
             ELSE find_from(dir, order, prefix, i + 1)

find_container_id(dir, order, prefix) == find_from(dir, order, prefix, 1)

\* load_container_config: the nested dicts become ResourceLimits and
\* NetworkConfig, the whole ContainerConfig; cls(**data) raises TypeError on
\* a keyword that is no field of cls, and a TypeError gives None.
load_config(dir, order, container_id) ==
    LET full_id == find_container_id(dir, order, container_id)
    IN  IF full_id = NoStr THEN NoConfig
        ELSE LET data == dir[full_id]
             IN  IF /\ DOMAIN data \subseteq Fields("ContainerConfig")
                    /\ DOMAIN data.resources \subseteq Fields("ResourceLimits")
                    /\ DOMAIN data.network \subseteq Fields("NetworkConfig")
                 THEN NewContainerConfig(
                          [FromDict("ContainerConfig", data) EXCEPT
                              !.resources = FromDict("ResourceLimits", @),
                              !.network = FromDict("NetworkConfig", @)],
                          NoStr, NoStr)
                 ELSE NoConfig

\* update_container_status(container_id, status, pid): load, assign, save.
\* The result is the directory afterwards and the return value.
MetadataStore_update_status(dir, order, container_id, status, pid) ==
    LET config == load_config(dir, order, container_id)
    IN  IF config = NoConfig THEN [dir |-> dir, result |-> "False"]
        ELSE [dir |-> save_container_config(dir,
                          [config EXCEPT !.status = status,
                                         !.pid = IF pid # None THEN pid ELSE @]),
              result |-> "True"]

\* start: "config = load_container_config(container_id); if config:
\* config.network.ip = ip; ...; save_container_config(config)".
save_network_info(dir, order, container_id, ip) ==
    LET config == load_config(dir, order, container_id)
    IN  IF config = NoConfig THEN [dir |-> dir, result |-> "False"]
        ELSE [dir |-> save_container_config(dir,
                          [config EXCEPT !.network.ip = ip,
                                         !.network.veth_host = "veth",
                                         !.network.veth_container = "eth0"]),
              result |-> "True"]

----------------------------------------------------------------------------
(* cli.py: the arguments of "run" *)

\* A memory string is its number and its suffix; args.memory is None when
\* the option is not given.
MemoryStr(n, suffix) == [given |-> TRUE, n |-> n, suffix |-> suffix]
NoMemory == [given |-> FALSE, n |-> 0, suffix |-> ""]

\* parse_memory_limit(memory_str): the number times the multiplier of the
\* suffix, in bytes; without a suffix the number itself; ValueError for any
\* other string.
parse_memory_limit(memory_str) ==
    LET multipliers ==
            [B |-> 1, K |-> 1024, KB |-> 1024, M |-> 1048576,
             MB |-> 1048576, G |-> 1073741824, GB |-> 1073741824]
    IN  IF memory_str.suffix \in DOMAIN multipliers
        THEN [raised |-> FALSE,
              bytes |-> memory_str.n * multipliers[memory_str.suffix]]
        ELSE IF memory_str.suffix = ""
        THEN [raised |-> FALSE, bytes |-> memory_str.n]
        ELSE [raised |-> TRUE, bytes |-> 0]

\* cmd_run: "memory_mb = None; if args.memory: memory_mb =
\* parse_memory_limit(args.memory) // (1024 * 1024)".
memory_mb_of(memory) ==
    IF ~memory.given THEN None
    ELSE parse_memory_limit(memory).bytes \div (1024 * 1024)

----------------------------------------------------------------------------
(* cgroups.py: Cgroup.set_limits *)

\* Cgroup.set_limits(cpu_quota, cpu_period, memory_mb, max_pids): the
\* writes to cpu.max ("<quota> <period>"), memory.max (bytes) and pids.max,
\* one for each limit that is not None.  A write has a period only for
\* cpu.max.
set_limits(cpu_quota, cpu_period, memory_mb, max_pids) ==
    {w \in {[file |-> "cpu.max", value |-> cpu_quota, period |-> cpu_period,
             set |-> cpu_quota # None],
            [file |-> "memory.max", value |-> memory_mb * 1024 * 1024,
             period |-> None, set |-> memory_mb # None],
            [file |-> "pids.max", value |-> max_pids, period |-> None,
             set |-> max_pids # None]} : w.set}

\* _run_container: "cgroup.set_limits(cpu_quota=config.resources.cpu_quota,
\* memory_mb=config.resources.memory_mb, max_pids=config.resources.max_pids)".
\* cpu_period is not passed and takes the default of the parameter.
cgroup_set_limits(resources) ==
    set_limits(resources.cpu_quota, 100000, resources.memory_mb,
               resources.max_pids)

----------------------------------------------------------------------------
(* container.py: Container.create;  pod.py *)

\* Container.create(rootfs, command, name, cpu_quota, memory_mb, max_pids,
\* env, pod_id): the ContainerConfig it builds and saves.
create(kw, new_id, new_name) ==
    NewContainerConfig(
        [id |-> NoStr, name |-> kw.name, hostname |-> NoStr,
         command |-> kw.command,
         resources |-> ResourceLimits(kw.cpu_quota, kw.memory_mb, kw.max_pids),
         network |-> NetworkConfig,
         namespaces |-> <<"pid", "uts", "mnt", "ipc", "net">>,
         env |-> kw.env, pod_id |-> kw.pod_id, status |-> "created",
         pid |-> None],
        new_id, new_name)

\* The keyword arguments cmd_run passes when no option is given.
DefaultArgs ==
    [name |-> NoStr, command |-> <<"sh">>, cpu_quota |-> None,
     memory_mb |-> None, max_pids |-> None, env |-> <<>>, pod_id |-> NoStr]

\* PodConfig(name): the fields the container records refer to.
PodConfig(id, name) == [id |-> id, name |-> name, containers |-> <<>>]

\* load_pod_config(pod_id): find_pod_id resolves an id prefix or a name.
\* The pods directory holds one pod at most here.
load_pod_config(pd, pod_id) ==
    LET hit == {id \in DOMAIN pd :
                   startswith(id, pod_id) \/ pd[id].name = pod_id}
    IN  IF hit = {} THEN NoConfig ELSE pd[CHOOSE id \in hit : TRUE]

\* add_container_to_pod / remove_container_from_pod: False when the pod is
\* not found; the list is saved when it changed.
add_container_to_pod(pd, pod_id, container_id) ==
    LET config == load_pod_config(pd, pod_id)
    IN  IF config = NoConfig \/ container_id \in Range(config.containers)
        THEN pd
        ELSE [pd EXCEPT ![config.id].containers = Append(@, container_id)]

remove_container_from_pod(pd, pod_id, container_id) ==
    LET config == load_pod_config(pd, pod_id)
    IN  IF config = NoConfig THEN pd
        ELSE [pd EXCEPT ![config.id].containers =
                            SelectSeq(@, LAMBDA c : c # container_id)]

----------------------------------------------------------------------------
(* Initial state: an empty store *)

\* No call on the store yet.
NoStoreCall == [op |-> "none", token |-> NoStr, order |-> <<>>,
                result |-> "none", found |-> NoStr, config |-> NoConfig]

NoCall == [op |-> "none", force |-> FALSE, result |-> "none",
           steps |-> <<>>, failed |-> {}, sigs |-> <<>>, window |-> "none"]

Call(op, force, result) ==
    [op |-> op, force |-> force, result |-> result,
     steps |-> <<>>, failed |-> {}, sigs |-> <<>>, window |-> "none"]

Init ==
    /\ rec = NoRecord
    /\ everCreated = FALSE
    /\ containerDir = FALSE
    /\ overlayDir = FALSE
    /\ cgroupDir = FALSE
    /\ overlayMounted = FALSE
    /\ inCgroup = FALSE
    /\ extraProcs = FALSE
    /\ nLaunch = 0
    /\ proc = "none"
    /\ exitStatus = "none"
    /\ detach = FALSE
    /\ lcfg = NoRecord
    /\ parentPc = "idle"
    /\ childPc = "none"
    /\ parentFds = {}
    /\ childFds = {}
    /\ c2p = 0
    /\ p2c = 0
    /\ gotU = FALSE
    /\ gotX = FALSE
    /\ rootfs_to_pivot = "rootfs"
    /\ parentTrace = <<>>
    /\ childTrace = <<>>
    /\ waitCode = NoCode
    /\ lastCall = NoCall
    /\ isRoot = FALSE
    /\ mounts = {}
    /\ paths = {}
    /\ teardown = <<>>
    /\ seccomp = NoSeccomp
    /\ filter_prog = NoFilter
    /\ seccompCall = NoSeccompCall
    /\ containers = <<>>
    /\ pods = <<>>
    /\ storeCall = NoStoreCall

\* The world a stop or remove call leaves behind.
SetWorld(w) ==
    /\ rec' = w.rec
    /\ containerDir' = w.containerDir
    /\ overlayDir' = w.overlayDir
    /\ cgroupDir' = w.cgroupDir
    /\ overlayMounted' = w.overlayMounted
    /\ extraProcs' = w.extraProcs
    /\ proc' = w.proc
    /\ exitStatus' = w.exitStatus
    /\ childPc' = w.childPc
    /\ childFds' = w.childFds

\* A command of the CLI runs one API call and reports its result (main:
\* "return args.func(args)"); the next command starts after that.
Returns ==
    /\ lastCall # NoCall
    /\ lastCall' = NoCall
    /\ UNCHANGED <<storeVars, dirVars, procVars, parentVars, childVars,
                   pipeVars>>
    /\ UNCHANGED <<mountVars, seccompVars, registryVars>>

----------------------------------------------------------------------------
(* Container.create *)

\* create(rootfs, command, ...): rejects a rootfs that is not a directory,
\* otherwise builds the ContainerConfig and saves it.
Create(rootless, use_overlay, seccomp_enabled, pod, rootfsOk) ==
    /\ lastCall = NoCall
    /\ ~everCreated
    /\ IF rootfsOk
       THEN /\ rec' = ContainerConfig(rootless, use_overlay, seccomp_enabled, pod)
            /\ everCreated' = TRUE
            /\ containerDir' = TRUE
            /\ lastCall' = Call("create", FALSE, "created")
       ELSE /\ UNCHANGED storeVars
            /\ lastCall' = Call("create", FALSE, "RootfsNotFound")
    /\ UNCHANGED <<dirVars, procVars, parentVars, childVars, pipeVars>>
    /\ UNCHANGED <<mountVars, seccompVars, registryVars>>

----------------------------------------------------------------------------
(* Container.stop and Container.remove as calls of another controller *)

\* timeout = 10 by default; cmd_stop --force passes 0.
DefaultTimeout == 10
StopTimeouts == {0, DefaultTimeout}

\* A zombie can only disappear during the grace window if its parent is
\* blocked in waitpid.
ReapPossible(zombieStays) == ~zombieStays => parentPc = "p_wait"

Stop(timeout, killOk, payloadDies, zombieStays) ==
    /\ lastCall = NoCall
    /\ ReapPossible(zombieStays)
    /\ \E s \in {stop(World, timeout, killOk, payloadDies, zombieStays)} :
           /\ SetWorld(s.w)
           /\ lastCall' = [Call("stop", timeout = 0, s.result) EXCEPT
                             !.sigs = s.w.sigs, !.window = s.window]
    /\ UNCHANGED <<everCreated, inCgroup, nLaunch, parentVars, gotX, rootfs_to_pivot,
                   childTrace, pipeVars>>
    /\ UNCHANGED <<mountVars, seccompVars, registryVars>>

Remove(force, e) ==
    /\ lastCall = NoCall
    /\ ReapPossible(e.zombieStays)
    /\ \E r \in {remove(World, force, e)} :
           /\ SetWorld(r.w)
           /\ lastCall' = [op |-> "remove", force |-> force,
                           result |-> r.result, steps |-> r.steps,
                           failed |-> r.failed,
                           sigs |-> r.w.sigs, window |-> "none"]
    /\ UNCHANGED <<everCreated, inCgroup, nLaunch, parentVars, gotX, rootfs_to_pivot,
                   childTrace, pipeVars>>
    /\ UNCHANGED <<mountVars, seccompVars, registryVars>>

\* A queued SIGKILL has not ended the init yet: the record is stopped and
\* the process it names is alive.
KillPending ==
    rec.status = "stopped" /\ rec.pid = nLaunch /\ proc \in Alive

\* stop as a call of another controller, with the time SIGKILL takes.
StopLanding(timeout, killOk, payloadDies, zombieStays, diedInTime) ==
    /\ lastCall = NoCall
    /\ ReapPossible(zombieStays)
    /\ \E s \in {stop_landing(World, timeout, killOk, payloadDies,
                               zombieStays, diedInTime)} :
           /\ SetWorld(s.w)
           /\ lastCall' = [Call("stop", timeout = 0, s.result) EXCEPT
                             !.sigs = s.w.sigs, !.window = s.window]
    /\ UNCHANGED <<everCreated, inCgroup, nLaunch, parentVars, gotX, rootfs_to_pivot,
                   childTrace, pipeVars>>
    /\ UNCHANGED <<mountVars, seccompVars, registryVars>>

\* The kernel ends the init a SIGKILL was queued for.
KillLands ==
    /\ KillPending
    /\ SetWorld(Killed(World))
    /\ UNCHANGED <<everCreated, inCgroup, nLaunch, parentVars, gotX, rootfs_to_pivot,
                   childTrace, pipeVars, lastCall>>
    /\ UNCHANGED <<mountVars, seccompVars, registryVars>>

----------------------------------------------------------------------------
(* Container.start: the controller side of the fork barrier *)

SyncFds == {"p2c_r", "p2c_w", "c2p_r", "c2p_w"}

\* start without the status test.
StartAnyStatus(config) == FALSE

\* start: "if config.status == 'running': raise ContainerError".
StartRejectsRunning(config) == config.status = "running"

\* "net" in config.namespaces (the default list) and not config.rootless.
WantsNetwork(config) == ~config.rootless

\* start(id) up to the fork.  Its parent branch begins by closing p2c_r and
\* c2p_w; the child's copies are closed by the child.
Start(root, dt) ==
    /\ lastCall = NoCall
    /\ parentPc = "idle"
    /\ IF ~load_container_config(rec, containerDir)
       THEN /\ lastCall' = Call("start", FALSE, "NotFound")
            /\ UNCHANGED <<procVars, parentVars, childVars, pipeVars>>
       ELSE IF StartRejectsRunning(rec)
       THEN /\ lastCall' = Call("start", FALSE, "AlreadyRunning")
            /\ UNCHANGED <<procVars, parentVars, childVars, pipeVars>>
       ELSE IF ~rec.rootless /\ ~root
       THEN /\ lastCall' = Call("start", FALSE, "RootRequired")
            /\ UNCHANGED <<procVars, parentVars, childVars, pipeVars>>
       ELSE /\ nLaunch < MaxLaunches
            /\ nLaunch' = nLaunch + 1
            /\ proc' = "setup"
            /\ exitStatus' = "none"
            /\ inCgroup' = FALSE
            /\ childPc' = "c_init"
            /\ childFds' = SyncFds
            /\ parentFds' = {"p2c_w", "c2p_r"}
            /\ c2p' = 0
            /\ p2c' = 0
            /\ gotU' = FALSE
            /\ gotX' = FALSE
            /\ rootfs_to_pivot' = "rootfs"
            /\ parentTrace' = <<"fork">>
            /\ childTrace' = <<>>
            /\ lcfg' = rec
            /\ detach' = dt
            /\ isRoot' = root
            /\ waitCode' = NoCode
            /\ parentPc' = IF rec.rootless THEN "p_readU" ELSE "p_writeX"
            /\ lastCall' = Call("start", FALSE, "forked")
            /\ UNCHANGED extraProcs
    /\ UNCHANGED <<storeVars, dirVars>>
    /\ UNCHANGED <<mountVars, seccompVars, registryVars>>

\* "if config.rootless: os.read(c2p_r, 1)": returns the byte, or b"" once
\* every write end of the pipe is closed.  The value read is not examined.
ParentReadU ==
    /\ parentPc = "p_readU"
    /\ c2p > 0 \/ "c2p_w" \notin childFds
    /\ gotU' = (c2p > 0)
    /\ c2p' = IF c2p > 0 THEN c2p - 1 ELSE c2p
    /\ parentTrace' = Append(parentTrace, IF c2p > 0 THEN "readU" ELSE "eofU")
    /\ parentPc' = "p_maps"
    /\ UNCHANGED <<storeVars, dirVars, procVars, childVars, p2c, detach, lcfg,
                   parentFds, waitCode, isRoot>>
    /\ lastCall' = NoCall
    /\ UNCHANGED <<mountVars, seccompVars, registryVars>>

\* The kernel accepts a map write only for a live task that has entered a
\* user namespace.
CanMap == proc \in Alive /\ "unshare" \in Range(childTrace)

\* setup_user_namespace with the gid_map block in front of the setgroups
\* block.
setup_user_namespace_gid_first(setgroupsOk, uidOk, gidOk) ==
    <<"uid_map">>
    \o (IF uidOk THEN <<"gid_map">> ELSE <<>>)
    \o (IF uidOk /\ gidOk
        THEN <<"setgroups">> \o (IF setgroupsOk THEN <<>> ELSE <<"setgroups_err">>)
        ELSE <<"raise">>)

\* setup_user_namespace(pid): the writes it issues, in order.  "deny" to
\* setgroups (IOError and OSError swallowed), then uid_map, then gid_map; a
\* failed map write raises NamespaceError.
setup_user_namespace(setgroupsOk, uidOk, gidOk) ==
    <<"setgroups">> \o (IF setgroupsOk THEN <<>> ELSE <<"setgroups_err">>)
    \o <<"uid_map">>
    \o (IF uidOk THEN <<"gid_map">> ELSE <<>>)
    \o (IF uidOk /\ gidOk THEN <<>> ELSE <<"raise">>)

\* start: "try: setup_user_namespace(pid) except Exception: print(Warning)".
\* The kernel takes the writes only for a live task in a new user namespace,
\* and takes gid_map from a writer without CAP_SETGID only after setgroups
\* was set to deny.
ParentMaps(setgroupsOk, uidOk, gidOk) ==
    /\ parentPc = "p_maps"
    /\ (setgroupsOk \/ uidOk \/ gidOk) => CanMap
    /\ uidOk \/ ~gidOk
    /\ gidOk => (setgroupsOk \/ isRoot)
    /\ \E writes \in {setup_user_namespace(setgroupsOk, uidOk, gidOk)} :
           parentTrace' = parentTrace
               \o [i \in 1..Len(writes) |->
                      IF writes[i] = "raise" THEN "maps_warn" ELSE writes[i]]
    /\ parentPc' = "p_writeX"
    /\ UNCHANGED <<storeVars, dirVars, procVars, childVars, pipeVars, detach,
                   lcfg, parentFds, gotU, waitCode, isRoot>>
    /\ lastCall' = NoCall
    /\ UNCHANGED <<mountVars, seccompVars, registryVars>>

\* start without "os.write(p2c_w, b'X')" and the two closes: the controller
\* goes on with p2c_w and c2p_r open.
ParentWriteX_skipped ==
    /\ parentPc = "p_writeX"
    /\ parentPc' = "p_status"
    /\ UNCHANGED <<storeVars, dirVars, procVars, childVars, pipeVars, detach,
                   lcfg, parentFds, gotU, parentTrace, waitCode, isRoot>>
    /\ lastCall' = NoCall
    /\ UNCHANGED <<mountVars, seccompVars, registryVars>>

\* os.write(p2c_w, b"X") (EPIPE ignored), then close p2c_w and c2p_r.
ParentWriteX ==
    /\ parentPc = "p_writeX"
    /\ p2c' = IF "p2c_r" \in childFds THEN p2c + 1 ELSE p2c
    /\ parentTrace' = parentTrace
           \o <<IF "p2c_r" \in childFds THEN "writeX" ELSE "epipeX", "close">>
    /\ parentFds' = {}
    /\ parentPc' = "p_status"
    /\ UNCHANGED <<storeVars, dirVars, procVars, childVars, c2p, detach, lcfg,
                   gotU, waitCode, isRoot>>
    /\ lastCall' = NoCall
    /\ UNCHANGED <<mountVars, seccompVars, registryVars>>

\* update_container_status(id, "running", pid=pid)
ParentStatus ==
    /\ parentPc = "p_status"
    /\ rec' = update_container_status(rec, containerDir, "running", nLaunch,
                                      NoCode, nLaunch)
    /\ parentTrace' = Append(parentTrace, "status_running")
    /\ parentPc' = IF WantsNetwork(lcfg) THEN "p_net" ELSE "p_return"
    /\ UNCHANGED <<everCreated, containerDir, dirVars, procVars, childVars,
                   pipeVars, detach, lcfg, parentFds, gotU, waitCode, isRoot>>
    /\ lastCall' = NoCall
    /\ UNCHANGED <<mountVars, seccompVars, registryVars>>

\* Network(id).setup(pid), then config = load_container_config(id).  A
\* failed setup is a warning.  The veth can only be moved into the namespace
\* of a live pid.
ParentNet(netOk) ==
    /\ parentPc = "p_net"
    /\ netOk => proc \in Alive
    /\ IF netOk /\ load_container_config(rec, containerDir)
       THEN /\ lcfg' = [rec EXCEPT !.net_ip = TRUE]
            /\ parentPc' = "p_netsave"
       ELSE /\ lcfg' = lcfg
            /\ parentPc' = "p_return"
    /\ parentTrace' = Append(parentTrace,
                             IF netOk THEN "net_setup" ELSE "net_warn")
    /\ UNCHANGED <<storeVars, dirVars, procVars, childVars, pipeVars, detach,
                   parentFds, gotU, waitCode, isRoot>>
    /\ lastCall' = NoCall
    /\ UNCHANGED <<mountVars, seccompVars, registryVars>>

\* save_container_config(config): makedirs, then the whole record is
\* written from the copy loaded in ParentNet.
ParentNetSave ==
    /\ parentPc = "p_netsave"
    /\ rec' = lcfg
    /\ containerDir' = TRUE
    /\ parentTrace' = Append(parentTrace, "net_save")
    /\ parentPc' = "p_return"
    /\ UNCHANGED <<everCreated, dirVars, procVars, childVars, pipeVars, detach,
                   lcfg, parentFds, gotU, waitCode, isRoot>>
    /\ lastCall' = NoCall
    /\ UNCHANGED <<mountVars, seccompVars, registryVars>>

\* start returns the pid to cmd_run.  With --detach the controller prints
\* the pid and exits; an init that already exited is then reaped by the
\* host.  Otherwise it blocks in waitpid.
ParentReturn ==
    /\ parentPc = "p_return"
    /\ parentTrace' = Append(parentTrace, "return")
    /\ parentPc' = IF detach THEN "idle" ELSE "p_wait"
    /\ proc' = IF detach /\ proc = "zombie" THEN "gone" ELSE proc
    /\ UNCHANGED <<storeVars, dirVars, inCgroup, extraProcs, nLaunch,
                   exitStatus, childVars, pipeVars, detach, lcfg, parentFds,
                   gotU, waitCode, isRoot>>
    /\ lastCall' = NoCall
    /\ UNCHANGED <<mountVars, seccompVars, registryVars>>

\* os.WEXITSTATUS / os.WIFEXITED
WIFEXITED(status) == status \in {"exit0", "exit1"}
WEXITSTATUS(status) ==
    CASE status = "exit0" -> 0
      [] status = "exit1" -> 1

\* cmd_run: "_, status = os.waitpid(pid, 0);
\*           exit_code = WEXITSTATUS(status) if WIFEXITED(status) else 1"
CtlWait ==
    /\ parentPc = "p_wait"
    /\ proc = "zombie"
    /\ proc' = "gone"
    /\ waitCode' = IF WIFEXITED(exitStatus) THEN WEXITSTATUS(exitStatus) ELSE 1
    /\ parentTrace' = Append(parentTrace, "waitpid")
    /\ parentPc' = "p_finish"
    /\ UNCHANGED <<storeVars, dirVars, inCgroup, extraProcs, nLaunch,
                   exitStatus, childVars, pipeVars, detach, lcfg, parentFds,
                   gotU, isRoot>>
    /\ lastCall' = NoCall
    /\ UNCHANGED <<mountVars, seccompVars, registryVars>>

\* cmd_run: update_container_status(id, "stopped", exit_code=exit_code), then
\* the controller exits.  (--rm calls remove next; Remove may follow.)
CtlFinish ==
    /\ parentPc = "p_finish"
    /\ rec' = update_container_status(rec, containerDir, "stopped", NoPid,
                                      waitCode, nLaunch)
    /\ parentTrace' = Append(parentTrace, "status_stopped")
    /\ parentPc' = "idle"
    /\ UNCHANGED <<everCreated, containerDir, dirVars, procVars, childVars,
                   pipeVars, detach, lcfg, parentFds, gotU, waitCode, isRoot>>
    /\ lastCall' = NoCall
    /\ UNCHANGED <<mountVars, seccompVars, registryVars>>

\* SIGINT to the controller between the fork and its exit: KeyboardInterrupt
\* is no Exception, so none of start's "except OSError" / "except Exception"
\* handlers takes it, nor cmd_run's "except ChildProcessError"; it reaches
\* cmd_run's "except KeyboardInterrupt: print('Interrupted'); return 130" and
\* the controller exits.  Its descriptors close; an init that is alive stays
\* so, an exited one is reaped by the host.
CtlInterrupt ==
    /\ parentPc # "idle"
    /\ parentPc' = "idle"
    /\ parentFds' = {}
    /\ parentTrace' = Append(parentTrace, "interrupted")
    /\ proc' = IF proc = "zombie" THEN "gone" ELSE proc
    /\ UNCHANGED <<storeVars, dirVars, inCgroup, extraProcs, nLaunch,
                   exitStatus, childVars, pipeVars, detach, lcfg, gotU,
                   waitCode, isRoot>>
    /\ lastCall' = NoCall
    /\ UNCHANGED <<mountVars, seccompVars, registryVars>>


----------------------------------------------------------------------------
(* Container._run_container: the init, from the fork to the exec *)

\* The init's process ends with the given wait status; its descriptors
\* close with it.
ChildEnds(status) ==
    /\ proc' = IF ParentAlive THEN "zombie" ELSE "gone"
    /\ exitStatus' = status
    /\ childPc' = "exited"
    /\ childFds' = {}

\* The handlers without their effect: the error is not logged and the init
\* falls through to start's "os._exit(0)".
ChildAborts_exit0(steps) ==
    /\ ChildEnds("exit0")
    /\ childTrace' = childTrace \o steps \o <<"exit0">>

\* "except Exception as e: logger.write(...); logger.close(); raise", then in
\* start "except Exception: print(...); os._exit(1)".
ChildAborts(steps) ==
    /\ ChildEnds("exit1")
    /\ childTrace' = childTrace \o steps \o <<"log_error", "exit1">>

ChildGoes(steps, pc) ==
    /\ childTrace' = childTrace \o steps
    /\ childPc' = pc
    /\ UNCHANGED <<proc, exitStatus, childFds>>

\* What a child step leaves alone besides the process and the directories.
childFrame == <<rec, everCreated, extraProcs, nLaunch, parentVars, pipeVars,
               rootfs_to_pivot>>

\* start's child branch closes p2c_w and c2p_r; _run_container then opens
\* the ContainerLogger (makedirs of containers/<id>; a failed open raises
\* before the try block, so nothing is logged).
ChildInit(logOk) ==
    /\ proc = "setup" /\ childPc = "c_init"
    /\ containerDir' = TRUE
    /\ IF logOk
       THEN /\ childTrace' = childTrace \o <<"logger">>
            /\ childPc' = "c_cgroup"
            /\ childFds' = {"p2c_r", "c2p_w"}
            /\ UNCHANGED <<proc, exitStatus>>
       ELSE /\ ChildEnds("exit1")
            /\ childTrace' = childTrace \o <<"exit1">>
    /\ UNCHANGED <<childFrame, dirVars, inCgroup, gotX>>
    /\ lastCall' = NoCall
    /\ UNCHANGED <<mountVars, seccompVars, registryVars>>

\* "if not config.rootless: Cgroup(id); set_limits(...); add_process(getpid)"
\* inside try/except that logs a warning.  outcome: "joined", "nodir"
\* (create_cgroup raises) or "nojoin" (the write to cgroup.procs fails).
CgroupOutcomes == {"joined", "nodir", "nojoin"}

ChildCgroup(outcome) ==
    /\ proc = "setup" /\ childPc = "c_cgroup"
    /\ IF lcfg.rootless
       THEN /\ outcome = "joined"
            /\ UNCHANGED <<cgroupDir, inCgroup>>
            /\ ChildGoes(<<>>, "c_unshare")
       ELSE /\ cgroupDir' = (cgroupDir \/ outcome # "nodir")
            /\ inCgroup' = (outcome = "joined")
            /\ ChildGoes(CASE outcome = "joined" ->
                                <<"cgroup_create", "set_limits", "add_process">>
                           [] outcome = "nojoin" ->
                                <<"cgroup_create", "set_limits", "cgroup_warn">>
                           [] outcome = "nodir" -> <<"cgroup_warn">>,
                         "c_unshare")
    /\ UNCHANGED <<childFrame, containerDir, overlayDir, overlayMounted, gotX>>
    /\ lastCall' = NoCall
    /\ UNCHANGED <<mountVars, seccompVars, registryVars>>

\* Pod namespaces are entered with setns (failures are warnings), then
\* create_namespaces: unshare raises on failure; a failed sethostname raises
\* unless rootless.
ChildUnshare(unshareOk, hostnameOk) ==
    /\ proc = "setup" /\ childPc = "c_unshare"
    /\ ~unshareOk => hostnameOk
    /\ LET pre == IF lcfg.pod_id THEN <<"setns">> ELSE <<>>
           next == IF lcfg.rootless THEN "c_signalU" ELSE "c_barrier"
       IN  IF ~unshareOk
           THEN ChildAborts(pre \o <<"unshare_failed">>)
           ELSE IF hostnameOk
           THEN ChildGoes(pre \o <<"unshare", "sethostname">>, next)
           ELSE IF lcfg.rootless
           THEN ChildGoes(pre \o <<"unshare", "hostname_warn">>, next)
           ELSE ChildAborts(pre \o <<"unshare", "sethostname_failed">>)
    /\ UNCHANGED <<childFrame, containerDir, dirVars, inCgroup, gotX>>
    /\ lastCall' = NoCall
    /\ UNCHANGED <<mountVars, seccompVars, registryVars>>

\* "if config.rootless: os.write(sync_write, b'U')", OSError ignored.
ChildSignalU ==
    /\ proc = "setup" /\ childPc = "c_signalU"
    /\ c2p' = IF "c2p_r" \in parentFds THEN c2p + 1 ELSE c2p
    /\ ChildGoes(<<"writeU">>, "c_barrier")
    /\ lastCall' = NoCall
    /\ UNCHANGED <<rec, everCreated, extraProcs, nLaunch, parentVars, p2c,
                   containerDir, dirVars, inCgroup, gotX, rootfs_to_pivot>>
    /\ UNCHANGED <<mountVars, seccompVars, registryVars>>

\* "if config.rootless: os.read(sync_read, 1)" and then, rootless or not,
\* close sync_read and sync_write.  Only a rootless init reads the pipe.
ChildWaitsForX(config) == config.rootless

\* The barrier without "os.close(sync_read); os.close(sync_write)".
ChildBarrier_keeps_fds ==
    /\ proc = "setup" /\ childPc = "c_barrier"
    /\ IF ChildWaitsForX(lcfg)
       THEN /\ p2c > 0 \/ "p2c_w" \notin parentFds
            /\ gotX' = (p2c > 0)
            /\ p2c' = IF p2c > 0 THEN p2c - 1 ELSE p2c
            /\ childTrace' = childTrace
                   \o <<IF p2c > 0 THEN "readX" ELSE "eofX">>
       ELSE /\ UNCHANGED <<gotX, p2c>>
            /\ childTrace' = childTrace \o <<"no_wait">>
    /\ childFds' = childFds
    /\ childPc' = "c_overlay"
    /\ UNCHANGED <<proc, exitStatus, rec, everCreated, extraProcs, nLaunch,
                   parentVars, c2p, containerDir, dirVars, inCgroup,
                   rootfs_to_pivot>>
    /\ lastCall' = NoCall
    /\ UNCHANGED <<mountVars, seccompVars, registryVars>>

ChildBarrier ==
    /\ proc = "setup" /\ childPc = "c_barrier"
    /\ IF ChildWaitsForX(lcfg)
       THEN /\ p2c > 0 \/ "p2c_w" \notin parentFds
            /\ gotX' = (p2c > 0)
            /\ p2c' = IF p2c > 0 THEN p2c - 1 ELSE p2c
            /\ childTrace' = childTrace
                   \o <<IF p2c > 0 THEN "readX" ELSE "eofX", "close_sync">>
       ELSE /\ UNCHANGED <<gotX, p2c>>
            /\ childTrace' = childTrace \o <<"close_sync">>
    /\ childFds' = {}
    /\ childPc' = "c_overlay"
    /\ UNCHANGED <<proc, exitStatus, rec, everCreated, extraProcs, nLaunch,
                   parentVars, c2p, containerDir, dirVars, inCgroup,
                   rootfs_to_pivot>>
    /\ lastCall' = NoCall
    /\ UNCHANGED <<mountVars, seccompVars, registryVars>>

\* The "Set up filesystem" block without its except clause: a failure of
\* setup_overlay_filesystem reaches the handler of _run_container.
setup_filesystem_unhandled(use_overlay, mountOk) ==
    IF use_overlay /\ ~mountOk
    THEN [raised |-> TRUE, steps |-> <<"overlay_failed">>,
          rootfs_to_pivot |-> "rootfs"]
    ELSE [raised |-> FALSE,
          steps |-> IF use_overlay THEN <<"overlay_mount">> ELSE <<>>,
          rootfs_to_pivot |-> IF use_overlay THEN "merged" ELSE "rootfs"]

\* "rootfs_to_pivot = config.rootfs; if config.use_overlay: try:
\*  ... = setup_overlay_filesystem(...); rootfs_to_pivot = merged
\*  except (OSError, FilesystemError): logger.write('Warning: Overlayfs setup
\*  failed ...'); config.use_overlay = False; rootfs_to_pivot = config.rootfs".
\* setup_overlay_filesystem raises OSError (makedirs, copytree) or
\* FilesystemError (mount); nothing leaves the block as an exception.
setup_filesystem(use_overlay, mountOk) ==
    IF ~use_overlay
    THEN [raised |-> FALSE, steps |-> <<>>, rootfs_to_pivot |-> "rootfs"]
    ELSE IF mountOk
         THEN [raised |-> FALSE, steps |-> <<"overlay_mount">>,
               rootfs_to_pivot |-> "merged"]
         ELSE [raised |-> FALSE, steps |-> <<"overlay_fallback">>,
               rootfs_to_pivot |-> "rootfs"]

\* The filesystem block of the init: makedirs of the overlay directories,
\* bind or copy of lower, mount of the overlay, and the choice of the root.
ChildOverlay(mountOk) ==
    /\ proc = "setup" /\ childPc = "c_overlay"
    /\ LET r == setup_filesystem(lcfg.use_overlay, mountOk)
       IN  /\ rootfs_to_pivot' = r.rootfs_to_pivot
           /\ IF r.raised
              THEN ChildAborts(r.steps)
              ELSE ChildGoes(r.steps, "c_root")
    /\ IF lcfg.use_overlay
       THEN /\ overlayDir' = TRUE
            /\ overlayMounted' = (overlayMounted \/ mountOk)
       ELSE /\ mountOk
            /\ UNCHANGED <<overlayDir, overlayMounted>>
    /\ UNCHANGED <<rec, everCreated, extraProcs, nLaunch, parentVars, pipeVars,
                   containerDir, cgroupDir, inCgroup, gotX>>
    /\ lastCall' = NoCall
    /\ UNCHANGED <<mountVars, seccompVars, registryVars>>

\* _run_container with the seccomp block moved in front of the capability
\* block.
next_pc_seccomp_first(pc) ==
    CASE pc = "c_root" -> "c_seccomp"
      [] pc = "c_seccomp" -> "c_caps"
      [] pc = "c_caps" -> "c_exec"

\* The order of the last blocks of _run_container: filesystem, then
\* "Apply capabilities", then "Apply seccomp filter", then the exec.
next_pc(pc) ==
    CASE pc = "c_root" -> "c_caps"
      [] pc = "c_caps" -> "c_seccomp"
      [] pc = "c_seccomp" -> "c_exec"

\* setup_minimal_dev (never raises); setup_pivot_root, on any exception
\* setup_chroot_filesystem, whose chroot raises on failure; chdir(workdir)
\* or chdir("/"); os.environ reset.
RootOutcomes == {"pivot_root", "chroot", "failed"}

ChildRoot(outcome) ==
    /\ proc = "setup" /\ childPc = "c_root"
    /\ IF outcome = "failed"
       THEN ChildAborts(<<"dev", "chroot_failed">>)
       ELSE ChildGoes(<<"dev", outcome, "chdir", "env">>, next_pc("c_root"))
    /\ UNCHANGED <<childFrame, containerDir, dirVars, inCgroup, gotX>>
    /\ lastCall' = NoCall
    /\ UNCHANGED <<mountVars, seccompVars, registryVars>>

\* "if not config.rootless: Capabilities().apply()" inside try/except that
\* logs a warning.
ChildCaps(capsOk) ==
    /\ proc = "setup" /\ childPc = "c_caps"
    /\ IF lcfg.rootless
       THEN capsOk /\ ChildGoes(<<>>, next_pc("c_caps"))
       ELSE ChildGoes(IF capsOk THEN <<"capdrop">> ELSE <<"capdrop_warn">>,
                      next_pc("c_caps"))
    /\ UNCHANGED <<childFrame, containerDir, dirVars, inCgroup, gotX>>
    /\ lastCall' = NoCall
    /\ UNCHANGED <<mountVars, seccompVars, registryVars>>

\* apply_seccomp_filter: set_no_new_privs, build_whitelist_filter,
\* install_seccomp_filter; the first failure raises SeccompError.
SeccompOutcomes == {"installed", "nnp_failed", "install_failed"}

apply_seccomp_filter(outcome) ==
    CASE outcome = "installed" -> <<"no_new_privs", "build_filter", "seccomp">>
      [] outcome = "nnp_failed" -> <<"raise">>
      [] outcome = "install_failed" -> <<"no_new_privs", "build_filter", "raise">>

\* "if config.seccomp_enabled: try: Seccomp().apply() except Exception as e:
\*  logger.write('Warning: Seccomp setup failed')": the init goes on.
ChildSeccomp(outcome) ==
    /\ proc = "setup" /\ childPc = "c_seccomp"
    /\ IF lcfg.seccomp_enabled
       THEN LET steps == apply_seccomp_filter(outcome)
            IN  IF "raise" \in Range(steps)
                THEN ChildGoes(SelectSeq(steps, LAMBDA x : x # "raise")
                               \o <<"seccomp_warn">>, next_pc("c_seccomp"))
                ELSE ChildGoes(steps, next_pc("c_seccomp"))
       ELSE outcome = "installed" /\ ChildGoes(<<>>, next_pc("c_seccomp"))
    /\ UNCHANGED <<childFrame, containerDir, dirVars, inCgroup, gotX>>
    /\ lastCall' = NoCall
    /\ UNCHANGED <<mountVars, seccompVars, registryVars>>

\* logger.write("Starting: ..."); logger.close(); os.execvp(command).  A
\* failed exec raises with the logger already closed.
ChildExec(execOk) ==
    /\ proc = "setup" /\ childPc = "c_exec"
    /\ IF execOk
       THEN /\ proc' = "payload"
            /\ childPc' = "payload"
            /\ childTrace' = childTrace \o <<"log_start", "exec">>
            /\ UNCHANGED <<exitStatus, childFds>>
       ELSE /\ ChildEnds("exit1")
            /\ childTrace' = childTrace \o <<"log_start", "exec_failed", "exit1">>
    /\ UNCHANGED <<childFrame, containerDir, dirVars, inCgroup, gotX>>
    /\ lastCall' = NoCall
    /\ UNCHANGED <<mountVars, seccompVars, registryVars>>

----------------------------------------------------------------------------
(* The payload *)

PayloadStatuses == {"exit0", "exit1", "signal"}

\* The payload forks descendants; they stay in the cgroup the init joined.
PayloadFork ==
    /\ proc = "payload" /\ inCgroup /\ ~extraProcs
    /\ extraProcs' = TRUE
    /\ UNCHANGED <<storeVars, dirVars, inCgroup, nLaunch, proc, exitStatus,
                   parentVars, childVars, pipeVars>>
    /\ lastCall' = NoCall
    /\ UNCHANGED <<mountVars, seccompVars, registryVars>>

\* The payload exits or is killed (SIGSYS, OOM); descendants may live on.
PayloadExit(status) ==
    /\ proc = "payload"
    /\ ChildEnds(status)
    /\ UNCHANGED <<storeVars, dirVars, inCgroup, extraProcs, nLaunch,
                   parentVars, gotX, rootfs_to_pivot, childTrace, pipeVars>>
    /\ lastCall' = NoCall
    /\ UNCHANGED <<mountVars, seccompVars, registryVars>>

\* The descendants exit on their own.
ExtraExit ==
    /\ extraProcs
    /\ extraProcs' = FALSE
    /\ UNCHANGED <<storeVars, dirVars, inCgroup, nLaunch, proc, exitStatus,
                   parentVars, childVars, pipeVars>>
    /\ lastCall' = NoCall
    /\ UNCHANGED <<mountVars, seccompVars, registryVars>>

----------------------------------------------------------------------------
(* Overlay setup and teardown on the mount table of overlay/<id> *)

\* The lifecycle variables the mount-table and seccomp actions leave alone.
lifecycleRest ==
    <<storeVars, cgroupDir, overlayMounted, procVars, parentVars, childVars,
      pipeVars, lastCall, registryVars>>

\* The next mount of the setup: makedirs of the mount point, then mount.
\* Every mount but the overlay's is allowed to fail (bind of lower falls
\* back to a copy; proc, sys, dev, dev/pts are in try/except); without the
\* overlay nothing more is mounted under overlay/<id>.
SetupMount(ok) ==
    /\ Cardinality(paths) < Len(SetupOrder)
    /\ LET p == SetupOrder[Cardinality(paths) + 1]
       IN  /\ p \notin {"lower", "merged"} => "merged" \in mounts
           /\ paths' = paths \cup {p}
           /\ mounts' = IF ok THEN mounts \cup {p} ELSE mounts
    /\ overlayDir' = TRUE
    /\ teardown' = <<>>
    /\ UNCHANGED <<lifecycleRest, seccompVars>>

\* cleanup_overlay(id) on the mount table.  fails: the mounted points whose
\* umount fails (EBUSY); umount of a path that is not a mount point fails
\* with EINVAL.  shutil.rmtree follows the loop and cannot remove a tree
\* that still holds a mount.
CleanupOverlay(fails, rmtreeOk) ==
    /\ paths # {}
    /\ fails \subseteq mounts
    /\ LET raises == fails \cup (paths \ mounts)
           calls == umount_loop(MountPoints, paths, raises)
           left == mounts \ (Range(calls) \ raises)
           gone == left = {} /\ rmtreeOk
       IN  /\ teardown' = calls \o <<"rmtree">>
           /\ mounts' = left
           /\ overlayDir' = ~gone
           /\ paths' = IF gone THEN {} ELSE paths
    /\ UNCHANGED <<lifecycleRest, seccompVars>>

----------------------------------------------------------------------------
(* The seccomp module: Seccomp objects, filters and their evaluation *)

SeccompOp(op, name, result) ==
    [NoSeccompCall EXCEPT !.op = op, !.name = name, !.result = result]

\* Seccomp(use_default)
SeccompNew(use_default) ==
    /\ seccomp' = [made |-> TRUE,
                   allowed |-> IF use_default THEN ALLOWED_SYSCALLS_WHITELIST
                               ELSE {}]
    /\ seccompCall' = SeccompOp("new", "none", use_default)
    /\ UNCHANGED <<filter_prog, lifecycleRest, overlayDir, mountVars>>

AddAllowed(syscall) ==
    /\ seccomp.made
    /\ \E r \in {add_allowed(seccomp.allowed, syscall)} :
           /\ seccomp' = [seccomp EXCEPT !.allowed = r.allowed]
           /\ seccompCall' = SeccompOp("add_allowed", syscall, r.result)
    /\ UNCHANGED <<filter_prog, lifecycleRest, overlayDir, mountVars>>

RemoveAllowed(syscall) ==
    /\ seccomp.made
    /\ seccomp' = [seccomp EXCEPT
                     !.allowed = remove_allowed(seccomp.allowed, syscall)]
    /\ seccompCall' = SeccompOp("remove_allowed", syscall, TRUE)
    /\ UNCHANGED <<filter_prog, lifecycleRest, overlayDir, mountVars>>

\* Seccomp.apply(): apply_seccomp_filter(whitelist=self.allowed) builds the
\* filter from the whitelist less the forbidden set and installs it.
SeccompApply ==
    /\ seccomp.made
    /\ filter_prog' =
           [whitelist |-> apply_allowed(seccomp.allowed),
            prog |-> build_whitelist_filter(apply_allowed(seccomp.allowed))]
    /\ seccompCall' = SeccompOp("apply", "none", TRUE)
    /\ UNCHANGED <<seccomp, lifecycleRest, overlayDir, mountVars>>

\* build_whitelist_filter(allowed_syscalls) called with any set of names.
BuildFilter(allowed_syscalls) ==
    /\ filter_prog' = [whitelist |-> allowed_syscalls,
                       prog |-> build_whitelist_filter(allowed_syscalls)]
    /\ seccompCall' = SeccompOp("build", "none", TRUE)
    /\ UNCHANGED <<seccomp, lifecycleRest, overlayDir, mountVars>>

\* The architectures and syscall numbers the filter is run on: x86-64 and
\* another architecture; every number of the table and one that no name
\* of SyscallNames carries.
OtherArch == 3
OtherNr == 1
TestArchs == {AUDIT_ARCH_X86_64, OtherArch}
TestNrs == {SYSCALLS[n] : n \in DOMAIN SYSCALLS} \cup {OtherNr}

\* A syscall of the filtered process: the kernel runs the program on
\* (arch, nr).
Evaluate(arch, nr) ==
    /\ filter_prog.prog # <<>>
    /\ seccompCall' =
           [SeccompOp("evaluate", "none", TRUE) EXCEPT
               !.arch = arch, !.nr = nr,
               !.ret = bpf_run(filter_prog.prog, 1, 0,
                               [arch |-> arch, nr |-> nr])]
    /\ UNCHANGED <<seccomp, filter_prog, lifecycleRest, overlayDir, mountVars>>

\* The table at its real size.  SYSCALLS holds 278 names with 278 distinct
\* numbers; ABSOLUTELY_FORBIDDEN_SYSCALLS names 29 of them.  A name of the
\* table is taken by its position, the forbidden names first, and its number
\* is its position less one.
SyscallTableSize == 278
ForbiddenInTable == 29
TableNames == 1..SyscallTableSize

\* The numbers of an allow-set when the forbidden names are not skipped.
table_numbers_unfiltered(allowed_syscalls) ==
    {name - 1 : name \in allowed_syscalls \cap TableNames}

\* build_whitelist_filter: "for name in allowed_syscalls: if name in
\* ABSOLUTELY_FORBIDDEN_SYSCALLS: continue; if name in SYSCALLS:
\* allowed_numbers.add(SYSCALLS[name])"
table_numbers(allowed_syscalls) ==
    {name - 1 : name \in {n \in allowed_syscalls \cap TableNames :
                              n > ForbiddenInTable}}

\* struct.pack("HBBI", code, jt, jf, k) in bpf_jump: a "B" field takes 0 to
\* 255 and raises struct.error for anything else.
packs(ins) == ins.jt \in 0..255 /\ ins.jf \in 0..255

\* The comparisons of build_whitelist_filter: one jump per number, in
\* ascending order (sorted: the number at position i has i - 1 numbers
\* below it), with jt = remaining + 1 where remaining = num_syscalls - i - 1
\* (i counts from 0 there, from 1 here).
jump_chain(allowed_syscalls) ==
    LET numbers == table_numbers(allowed_syscalls)
        num_syscalls == Cardinality(numbers)
        rank == [x \in numbers |-> Cardinality({y \in numbers : y < x}) + 1]
        sorted_numbers == [i \in 1..num_syscalls |->
                              CHOOSE x \in numbers : rank[x] = i]
    IN  [i \in 1..num_syscalls |->
            bpf_jump(BPF_JMP_JEQ_K, sorted_numbers[i],
                     (num_syscalls - i) + 1, 0)]

\* build_whitelist_filter(allowed_syscalls) on names of the real table: the
\* program is returned when every instruction packs, struct.error is
\* raised otherwise.  The function is pure; it is called once, on the state
\* the process starts in.
BuildTableFilter(allowed_syscalls) ==
    /\ seccompCall = NoSeccompCall
    /\ \E chain \in {jump_chain(allowed_syscalls)} :
        \E ok \in {\A i \in DOMAIN chain : packs(chain[i])} :
           /\ filter_prog' = IF ok THEN [whitelist |-> allowed_syscalls,
                                         prog |-> chain]
                             ELSE NoFilter
           /\ seccompCall' = SeccompOp("build_table", "none", ok)
    /\ UNCHANGED <<seccomp, lifecycleRest, overlayDir, mountVars>>

----------------------------------------------------------------------------
(* Calls on the store of records *)

\* Bound: number of container records in the store.
MaxRecords == 2

\* What the calls on the store leave alone.
registryRest ==
    <<storeVars, dirVars, procVars, parentVars, childVars, pipeVars, lastCall,
      mountVars, seccompVars>>

\* The orders in which os.listdir can return the entries of a directory.
Orders(S) == {o \in [1..Cardinality(S) -> S] : Range(o) = S}

StoreOp(op, token, order, result) ==
    [NoStoreCall EXCEPT !.op = op, !.token = token, !.order = order,
                        !.result = result]

\* Container.create(rootfs, command, **kw).  new_id and new_name are what
\* generate_container_id and generate_container_name return; an id is 12
\* random hexadecimal digits and is taken to be new.
ContainerCreate(rootfsOk, kw, new_id, new_name) ==
    /\ Cardinality(DOMAIN containers) < MaxRecords
    /\ new_id \notin DOMAIN containers
    /\ IF rootfsOk
       THEN \E config \in {create(kw, new_id, new_name)} :
               /\ containers' = save_container_config(containers, config)
               /\ storeCall' = [StoreOp("create", NoStr, <<>>, "created")
                                   EXCEPT !.config = config]
       ELSE /\ UNCHANGED containers
            /\ storeCall' = StoreOp("create", NoStr, <<>>, "RootfsNotFound")
    /\ UNCHANGED <<pods, registryRest>>

\* cmd_run up to the call of create: --memory, --pids / --pids-limit, --cpu,
\* --name and --pod become keyword arguments; a malformed memory string ends
\* the command with an error.
CmdRun(memory, pids, pids_limit, cpu, name, pod, new_id, new_name) ==
    IF memory.given /\ parse_memory_limit(memory).raised
    THEN /\ storeCall' = StoreOp("run", NoStr, <<>>, "InvalidMemory")
         /\ UNCHANGED <<containers, pods, registryRest>>
    ELSE ContainerCreate(TRUE,
             [DefaultArgs EXCEPT !.name = name, !.cpu_quota = cpu,
                                 !.memory_mb = memory_mb_of(memory),
                                 !.max_pids = IF pids # None /\ pids # 0
                                              THEN pids ELSE pids_limit,
                                 !.pod_id = pod],
             new_id, new_name)

\* cmd_run_oci up to the call of start: to_container_config copies
\* linux.resources.cpu.quota and .period of the bundle into ResourceLimits,
\* and the record is saved without going through create.
CmdRunOci(quota, period, new_id, new_name) ==
    /\ Cardinality(DOMAIN containers) < MaxRecords
    /\ new_id \notin DOMAIN containers
    /\ \E config \in {[create(DefaultArgs, new_id, new_name) EXCEPT
                          !.resources.cpu_quota = quota,
                          !.resources.cpu_period = period]} :
          /\ containers' = save_container_config(containers, config)
          /\ storeCall' = [StoreOp("run_oci", NoStr, <<>>, "created")
                              EXCEPT !.config = config]
    /\ UNCHANGED <<pods, registryRest>>

\* Another writer (a newer version of the runtime, an editor) adds a field
\* to a record's config.json.
EditConfig(id) ==
    /\ id \in DOMAIN containers
    /\ "labels" \notin DOMAIN containers[id]
    /\ containers' = [containers EXCEPT ![id] = ("labels" :> "v1") @@ @]
    /\ storeCall' = StoreOp("edit", id, <<>>, "written")
    /\ UNCHANGED <<pods, registryRest>>

\* update_container_status(token, "running", pid=1)
UpdateStatus(token, order) ==
    /\ \E r \in {MetadataStore_update_status(containers, order, token,
                                             "running", 1)} :
           /\ containers' = r.dir
           /\ storeCall' = StoreOp("update_status", token, order, r.result)
    /\ UNCHANGED <<pods, registryRest>>

\* The network-info save of start.
SaveNetwork(token, order) ==
    /\ \E r \in {save_network_info(containers, order, token, "10.0.0.2")} :
           /\ containers' = r.dir
           /\ storeCall' = StoreOp("save_network", token, order, r.result)
    /\ UNCHANGED <<pods, registryRest>>

\* find_container_id(token)
Find(token, order) ==
    /\ storeCall' = [StoreOp("find", token, order, "returned") EXCEPT
                        !.found = find_container_id(containers, order, token)]
    /\ UNCHANGED <<containers, pods, registryRest>>

\* PodManager.create(name)
PodCreate(name, new_id) ==
    /\ DOMAIN pods = {}
    /\ pods' = [id \in {new_id} |-> PodConfig(new_id, name)]
    /\ storeCall' = StoreOp("pod_create", new_id, <<>>, "created")
    /\ UNCHANGED <<containers, registryRest>>

\* PodManager.add_container(pod_id, container_id)
PodAddContainer(pod_id, container_id) ==
    /\ pods' = add_container_to_pod(pods, pod_id, container_id)
    /\ storeCall' = StoreOp("pod_add", pod_id, <<>>,
                            IF load_pod_config(pods, pod_id) = NoConfig
                            THEN "False" ELSE "True")
    /\ UNCHANGED <<containers, registryRest>>

\* PodManager.delete(pod_id, force): False when the pod is not found,
\* PodError when it lists containers and force is not set, else
\* delete_pod_config.
PodDelete(pod_id, force) ==
    /\ LET config == load_pod_config(pods, pod_id)
       IN  IF config = NoConfig
           THEN /\ UNCHANGED pods
                /\ storeCall' = StoreOp("pod_delete", pod_id, <<>>, "False")
           ELSE IF config.containers # <<>> /\ ~force
           THEN /\ UNCHANGED pods
                /\ storeCall' = StoreOp("pod_delete", pod_id, <<>>, "PodError")
           ELSE /\ pods' = [id \in DOMAIN pods \ {config.id} |-> pods[id]]
                /\ storeCall' = StoreOp("pod_delete", pod_id, <<>>, "True")
    /\ UNCHANGED <<containers, registryRest>>

\* The part of Container.remove that touches the store: the record is
\* loaded, taken off its pod's list and its directory is deleted.
ContainerRemove(token, order) ==
    /\ LET config == load_config(containers, order, token)
           full_id == find_container_id(containers, order, config.id)
       IN  IF config = NoConfig
           THEN /\ UNCHANGED <<containers, pods>>
                /\ storeCall' = StoreOp("remove", token, order, "NotFound")
           ELSE /\ pods' = IF config.pod_id # NoStr
                           THEN remove_container_from_pod(pods, config.pod_id,
                                                          config.id)
                           ELSE pods
                /\ containers' = [id \in DOMAIN containers \ {full_id} |->
                                     containers[id]]
                /\ storeCall' = StoreOp("remove", token, order, "True")
    /\ UNCHANGED registryRest

----------------------------------------------------------------------------
(* Specifications *)

\* Steps of the controller that launched the init, and of the payload.
ControllerStep ==
    \/ ParentReadU
    \/ \E setgroupsOk, uidOk, gidOk \in BOOLEAN :
           ParentMaps(setgroupsOk, uidOk, gidOk)
    \/ ParentWriteX
    \/ ParentStatus
    \/ \E netOk \in BOOLEAN : ParentNet(netOk)
    \/ ParentNetSave
    \/ ParentReturn
    \/ CtlWait
    \/ CtlFinish

PayloadStep ==
    \/ PayloadFork
    \/ \E status \in PayloadStatuses : PayloadExit(status)
    \/ ExtraExit

\* SpecLaunch: one controller creates and launches the container; every
\* step of the init can take every outcome.
NextLaunch ==
    \/ \E rootless, use_overlay, seccomp_enabled, pod, rootfsOk \in BOOLEAN :
           Create(rootless, use_overlay, seccomp_enabled, pod, rootfsOk)
    \/ \E root, dt \in BOOLEAN : Start(root, dt)
    \/ Returns
    \/ ControllerStep
    \/ \E logOk \in BOOLEAN : ChildInit(logOk)
    \/ \E outcome \in CgroupOutcomes : ChildCgroup(outcome)
    \/ \E unshareOk, hostnameOk \in BOOLEAN : ChildUnshare(unshareOk, hostnameOk)
    \/ ChildSignalU
    \/ ChildBarrier
    \/ \E mountOk \in BOOLEAN : ChildOverlay(mountOk)
    \/ \E outcome \in RootOutcomes : ChildRoot(outcome)
    \/ \E capsOk \in BOOLEAN : ChildCaps(capsOk)
    \/ \E outcome \in SeccompOutcomes : ChildSeccomp(outcome)
    \/ \E execOk \in BOOLEAN : ChildExec(execOk)
    \/ PayloadStep

SpecLaunch == Init /\ [][NextLaunch]_vars

\* SpecInterrupt: a launch whose init succeeds at every step, with a
\* controller that can be interrupted at every point after the fork.
NextInterrupt ==
    \/ \E rootless, use_overlay \in BOOLEAN :
           Create(rootless, use_overlay, TRUE, FALSE, TRUE)
    \/ \E root, dt \in BOOLEAN : Start(root, dt)
    \/ Returns
    \/ ControllerStep
    \/ CtlInterrupt
    \/ ChildInit(TRUE)
    \/ ChildCgroup("joined")
    \/ ChildUnshare(TRUE, TRUE)
    \/ ChildSignalU
    \/ ChildBarrier
    \/ ChildOverlay(TRUE)
    \/ ChildRoot("pivot_root")
    \/ ChildCaps(TRUE)
    \/ ChildSeccomp("installed")
    \/ ChildExec(TRUE)
    \/ PayloadStep

SpecInterrupt == Init /\ [][NextInterrupt]_vars

\* Another controller invocation runs while no start call is between its
\* fork and its return and the init is not in the middle of its setup.
BetweenLaunches == parentPc \in {"idle", "p_wait"} /\ proc # "setup"

\* Spec: the whole lifecycle.  stop and remove are called between launches;
\* the init's setup takes the outcomes that decide what it leaves on disk
\* (cgroup, overlay) and whether it reaches the exec.
Next ==
    \/ \E rootless, use_overlay, pod, rootfsOk \in BOOLEAN :
           Create(rootless, use_overlay, TRUE, pod, rootfsOk)
    \/ \E root, dt \in BOOLEAN : Start(root, dt)
    \/ Returns
    \/ ParentReadU
    \/ ParentMaps(TRUE, TRUE, TRUE)
    \/ ParentWriteX
    \/ ParentStatus
    \/ \E netOk \in BOOLEAN : ParentNet(netOk)
    \/ ParentNetSave
    \/ ParentReturn
    \/ CtlWait
    \/ CtlFinish
    \/ ChildInit(TRUE)
    \/ \E outcome \in CgroupOutcomes : ChildCgroup(outcome)
    \/ ChildUnshare(TRUE, TRUE)
    \/ ChildSignalU
    \/ ChildBarrier
    \/ \E mountOk \in BOOLEAN : ChildOverlay(mountOk)
    \/ ChildRoot("pivot_root")
    \/ ChildCaps(TRUE)
    \/ ChildSeccomp("installed")
    \/ ChildExec(TRUE)
    \/ PayloadStep
    \/ /\ BetweenLaunches
       /\ \E timeout \in StopTimeouts :
          \E killOk \in Choices(Signals(World)),
             payloadDies \in Choices(Signals(World) /\ proc = "payload"),
             zombieStays \in Choices(Signals(World) /\ parentPc = "p_wait") :
              Stop(timeout, killOk, payloadDies, zombieStays)
    \/ /\ BetweenLaunches
       /\ \E force \in BOOLEAN : \E e \in RemoveEnv(World, force) :
              Remove(force, e)

Spec == Init /\ [][Next]_vars

\* SpecTeardown: overlay setup and cleanup_overlay on the mount table.
NextTeardown ==
    \/ \E ok \in BOOLEAN : SetupMount(ok)
    \/ \E fails \in SUBSET mounts : \E rmtreeOk \in BOOLEAN :
           CleanupOverlay(fails, rmtreeOk)

SpecTeardown == Init /\ [][NextTeardown]_vars

\* SpecSeccomp: calls on the seccomp module and syscalls under the filter.
NextSeccomp ==
    \/ \E use_default \in BOOLEAN : SeccompNew(use_default)
    \/ \E syscall \in SyscallNames : AddAllowed(syscall)
    \/ \E syscall \in SyscallNames : RemoveAllowed(syscall)
    \/ SeccompApply
    \/ \E allowed_syscalls \in SUBSET SyscallNames : BuildFilter(allowed_syscalls)
    \/ \E arch \in TestArchs : \E nr \in TestNrs : Evaluate(arch, nr)

SpecSeccomp == Init /\ [][NextSeccomp]_vars

\* The filter built for allow-sets of the real table: the first n names of
\* the table, for every n up to the whole table.
NextTable ==
    \E n \in 0..SyscallTableSize : BuildTableFilter(1..n)

SpecTable == Init /\ [][NextTable]_vars

\* What callers pass to the store.  name: no name, a word, a string that
\* is the id of a container; generated: the names generate_container_name
\* returns; token: ids, an id prefix and names; run: the resource options of
\* "run" (none; --cpu 50 --memory 100M --pids 10; --memory 512K --pids 0
\* --pids-limit 10; a malformed memory string); pod: the one pod; command:
\* an empty and a non-empty command.
CallArgs ==
    [name |-> {NoStr, <<9>>, <<1, 2>>},
     generated |-> {<<7>>, <<8>>},
     token |-> Ids \cup {<<1>>, <<9>>, <<7>>, <<8>>},
     run |-> {[memory |-> NoMemory, pids |-> None, pids_limit |-> None,
               cpu |-> None],
              [memory |-> MemoryStr(100, "M"), pids |-> 10,
               pids_limit |-> None, cpu |-> 50],
              [memory |-> MemoryStr(512, "K"), pids |-> 0, pids_limit |-> 10,
               cpu |-> None],
              [memory |-> MemoryStr(1, "GiB"), pids |-> None,
               pids_limit |-> None, cpu |-> None]},
     pod |-> <<2, 2>>,
     command |-> {<<>>, <<"sh">>}]

\* SpecBarrier: launches, rootless or not, in which the init can fail to
\* open its log or to unshare (before it writes "U") and the map writes of
\* the controller can fail.  The controller and the init are two processes
\* of the host, each scheduled as long as it has a step to take.
InitStep ==
    \/ \E logOk \in BOOLEAN : ChildInit(logOk)
    \/ ChildCgroup("joined")
    \/ \E unshareOk \in BOOLEAN : ChildUnshare(unshareOk, TRUE)
    \/ ChildSignalU
    \/ ChildBarrier
    \/ ChildOverlay(TRUE)
    \/ ChildRoot("pivot_root")
    \/ ChildCaps(TRUE)
    \/ ChildSeccomp("installed")
    \/ ChildExec(TRUE)

NextBarrier ==
    \/ \E rootless \in BOOLEAN : Create(rootless, FALSE, FALSE, FALSE, TRUE)
    \/ \E root, dt \in BOOLEAN : Start(root, dt)
    \/ Returns
    \/ ControllerStep
    \/ InitStep
    \/ \E status \in PayloadStatuses : PayloadExit(status)

SpecBarrier ==
    Init /\ [][NextBarrier]_vars /\ WF_vars(ControllerStep) /\ WF_vars(InitStep)

\* SpecRace: a launch, and a second controller invocation that calls stop
\* at any point of start's bookkeeping once the init has left its setup.
NextRace ==
    \/ \E rootless \in BOOLEAN : Create(rootless, FALSE, TRUE, FALSE, TRUE)
    \/ \E dt \in BOOLEAN : Start(TRUE, dt)
    \/ Returns
    \/ ControllerStep
    \/ InitStep
    \/ \E status \in PayloadStatuses : PayloadExit(status)
    \/ /\ proc # "setup"
       /\ \E timeout \in StopTimeouts :
          \E killOk \in Choices(Signals(World)),
             payloadDies \in Choices(Signals(World) /\ proc = "payload"),
             zombieStays \in Choices(Signals(World) /\ parentPc = "p_wait") :
              Stop(timeout, killOk, payloadDies, zombieStays)

SpecRace == Init /\ [][NextRace]_vars

\* SpecStop: a container is launched and stopped by another controller;
\* the init ends when the kernel has delivered the SIGKILL, which may be
\* after stop has returned.  The model follows one init: the next launch
\* is taken once the last one has ended.
NextStop ==
    \/ \E rootless \in BOOLEAN : Create(rootless, FALSE, FALSE, FALSE, TRUE)
    \/ ~KillPending /\ \E dt \in BOOLEAN : Start(TRUE, dt)
    \/ Returns
    \/ ControllerStep
    \/ InitStep
    \/ \E status \in PayloadStatuses : PayloadExit(status)
    \/ /\ BetweenLaunches
       /\ \E timeout \in StopTimeouts :
          \E killOk \in Choices(Signals(World)),
             payloadDies \in Choices(Signals(World) /\ proc = "payload"),
             zombieStays \in Choices(Signals(World) /\ parentPc = "p_wait"),
             diedInTime \in Choices(Signals(World) /\ proc \in Alive) :
              StopLanding(timeout, killOk, payloadDies, zombieStays,
                          diedInTime)
    \/ KillLands

SpecStop == Init /\ [][NextStop]_vars

\* SpecRegistry: records are created under names, updated and looked up.
NextRegistry ==
    \/ \E name \in CallArgs.name, new_id \in Ids, new_name \in CallArgs.generated :
           ContainerCreate(TRUE, [DefaultArgs EXCEPT !.name = name],
                           new_id, new_name)
    \/ \E token \in CallArgs.token, order \in Orders(DOMAIN containers) :
           UpdateStatus(token, order)
    \/ \E token \in CallArgs.token, order \in Orders(DOMAIN containers) :
           SaveNetwork(token, order)
    \/ \E token \in CallArgs.token, order \in Orders(DOMAIN containers) :
           Find(token, order)

SpecRegistry == Init /\ [][NextRegistry]_vars

\* SpecRewrite: records whose config.json another writer has extended are
\* read, modified and written back through their ids.
NextRewrite ==
    \/ \E new_id \in Ids, new_name \in CallArgs.generated :
           ContainerCreate(TRUE, DefaultArgs, new_id, new_name)
    \/ \E id \in Ids : EditConfig(id)
    \/ \E id \in Ids, order \in Orders(DOMAIN containers) :
           UpdateStatus(id, order)
    \/ \E id \in Ids, order \in Orders(DOMAIN containers) :
           SaveNetwork(id, order)

SpecRewrite == Init /\ [][NextRewrite]_vars

\* SpecCreate: records are created from the command line and through the
\* API, with and without a pod; pods are created and deleted.
NextCreate ==
    \/ \E a \in CallArgs.run, pod \in {NoStr, CallArgs.pod}, new_id \in Ids,
          new_name \in CallArgs.generated :
           CmdRun(a.memory, a.pids, a.pids_limit, a.cpu, NoStr, pod, new_id,
                  new_name)
    \/ \E rootfsOk \in BOOLEAN, command \in CallArgs.command, new_id \in Ids,
          new_name \in CallArgs.generated :
           ContainerCreate(rootfsOk, [DefaultArgs EXCEPT !.command = command],
                           new_id, new_name)
    \/ \E period \in {100000, 200000}, new_id \in Ids,
          new_name \in CallArgs.generated :
           CmdRunOci(50000, period, new_id, new_name)
    \/ PodCreate(<<6>>, CallArgs.pod)
    \/ \E id \in Ids : PodAddContainer(CallArgs.pod, id)
    \/ \E force \in BOOLEAN : PodDelete(CallArgs.pod, force)
    \/ \E id \in Ids, order \in Orders(DOMAIN containers) :
           ContainerRemove(id, order)

SpecCreate == Init /\ [][NextCreate]_vars

----------------------------------------------------------------------------
(* Properties *)

Loaded == load_container_config(rec, containerDir)

\* The init of the latest launch ended before the exec of the payload.
SetupFailed == "exit1" \in Range(childTrace)

\* The controller that launched the init has finished with it.
LaunchHandled == nLaunch > 0 /\ parentPc = "idle" /\ lastCall = NoCall

\* C1: after a launch whose init failed during setup and exited before the
\* exec, the record is not left in status running once the controller has
\* completed start and its handling of the init's exit.
C1_FailedLaunchNotRunning ==
    (LaunchHandled /\ SetupFailed /\ Loaded) => rec.status # "running"

\* C2: a record with status running has a pid, and the pid names a live
\* process.  Stated for the states in which no controller is at work, so
\* that no update of the record is pending.
C2_RunningIsAlive ==
    (parentPc = "idle" /\ lastCall = NoCall /\ Loaded /\ rec.status = "running")
        => /\ rec.pid # NoPid
           /\ PidState(World, rec.pid) \in Alive

\* C3: a launch with seccomp_enabled that reaches the exec of the payload
\* has set NO_NEW_PRIVS and installed the filter; a failure of either
\* aborts the launch instead.
C3_ExecOnlyFiltered ==
    (lcfg.seccomp_enabled /\ "exec" \in Range(childTrace))
        => {"no_new_privs", "seccomp"} \subseteq Range(childTrace)

\* C4: in a rootless launch the controller writes setgroups, uid_map and
\* gid_map only after the init has completed its unshare and the controller
\* has received the "U" byte.
C4_MapsAfterU ==
    (Range(parentTrace) \cap {"setgroups", "uid_map", "gid_map"} # {})
        => gotU /\ "unshare" \in Range(childTrace)

\* The init's filesystem setup: overlay mount, /dev, pivot_root.
FsSetup == {"overlay_mount", "overlay_fallback", "dev", "pivot_root", "chroot"}

\* C5: in every launch, rootless or not, the init enters filesystem setup
\* only after it has read the "X" byte, and in a rootless launch that read
\* follows the end of the controller's map writes.
C5_FsAfterX ==
    (Range(childTrace) \cap FsSetup # {})
        => /\ gotX
           /\ lcfg.rootless =>
                  Range(parentTrace) \cap {"gid_map", "maps_warn"} # {}

\* C6: after remove returns successfully, none of containers/<id>,
\* overlay/<id> and the cgroup directory exists.
C6_RemoveLeavesNothing ==
    (lastCall.op = "remove" /\ lastCall.result = "True")
        => ~containerDir /\ ~overlayDir /\ ~cgroupDir

\* C7: remove on a running record with force=False raises and changes
\* nothing: no cleanup step runs, no signal is sent, the record, its
\* directories and its processes are as they were.
C7_RemoveRunningRefused ==
    [][(lastCall'.op = "remove" /\ ~lastCall'.force /\ Loaded
            /\ rec.status = "running")
        => /\ lastCall'.result = "Conflict"
           /\ lastCall'.steps = <<>>
           /\ lastCall'.sigs = <<>>
           /\ UNCHANGED <<rec, containerDir, overlayDir, cgroupDir,
                          overlayMounted, proc, extraProcs>>]_vars

C7_Refused ==
    /\ lastCall.op = "remove" /\ lastCall.result = "Conflict"
    /\ rec.status = "running" /\ proc = "payload" /\ cgroupDir

CleanupSteps == {"overlay", "cgroup", "network", "pod"}

\* The steps of remove that apply to a record.
Applicable(config) ==
    {"cgroup", "network", "delete"}
    \cup {x \in {"overlay"} : config.use_overlay}
    \cup {x \in {"pod"} : config.pod_id}

\* C8: in a remove that got past its status test, a failing cleanup step
\* (overlay teardown, cgroup deletion, network cleanup, removal from the
\* pod) keeps neither the other steps from running nor the record directory
\* from being deleted.
C8_CleanupRunsThrough ==
    [][(lastCall'.op = "remove"
            /\ lastCall'.result \notin {"NotFound", "Conflict", "StopFailed"})
        => /\ Applicable(rec) \subseteq Range(lastCall'.steps)
           /\ "delete" \notin lastCall'.failed => ~containerDir']_vars

C8_OneStepFailed ==
    /\ lastCall.op = "remove"
    /\ lastCall.failed = {"overlay"}
    /\ lastCall.steps = <<"overlay", "cgroup", "network", "pod", "delete">>
    /\ overlayDir /\ ~containerDir

\* C9: the first remove of a container succeeds and the second fails with
\* not found, and after either call no mount, cgroup directory or data
\* directory of the container remains.  A call that finds the record gone
\* or deletes it is one of the two; a call after which the record directory
\* is gone returned success or not found.
C9_RemoveTwice ==
    lastCall.op = "remove"
        => /\ ~containerDir => lastCall.result \in {"True", "NotFound"}
           /\ lastCall.result \in {"True", "NotFound"}
                  => /\ ~containerDir /\ ~overlayDir /\ ~cgroupDir
                     /\ ~overlayMounted

\* C10: start on a record whose status is running raises without forking a
\* second init and leaves the record unchanged.
C10_StartRunningRefused ==
    [][(lastCall'.op = "start" /\ Loaded /\ rec.status = "running")
        => /\ lastCall'.result = "AlreadyRunning"
           /\ nLaunch' = nLaunch
           /\ UNCHANGED <<rec, proc, childPc, parentPc>>]_vars

C10_Refused ==
    /\ lastCall.op = "start" /\ lastCall.result = "AlreadyRunning"
    /\ rec.status = "running" /\ rec.pid = nLaunch /\ proc = "payload"

MustAllow(A) ==
    {SYSCALLS[n] : n \in (A \ ABSOLUTELY_FORBIDDEN_SYSCALLS) \cap DOMAIN SYSCALLS}

\* The comparisons of a filter program: the JEQ instructions after the load
\* of the syscall number.
Comparisons(prog) == {i \in 5..Len(prog) : prog[i].code = BPF_JMP_JEQ_K}

\* C17: the program build_whitelist_filter emits for allow-set A returns
\* ALLOW on (arch, nr) exactly when arch is x86-64 and nr is the number of a
\* name of A that is not forbidden, and KILL_PROCESS otherwise; its
\* comparisons are in ascending syscall-number order, one per allowed
\* number, and every one of them jumps to the ALLOW instruction.
C17_FilterExact ==
    seccompCall.op = "evaluate"
        => LET prog == filter_prog.prog
               A == filter_prog.whitelist
           IN  /\ seccompCall.ret =
                      IF /\ seccompCall.arch = AUDIT_ARCH_X86_64
                         /\ seccompCall.nr \in MustAllow(A)
                      THEN SECCOMP_RET_ALLOW ELSE SECCOMP_RET_KILL_PROCESS
               /\ {prog[i].k : i \in Comparisons(prog)} = MustAllow(A)
               /\ \A i, j \in Comparisons(prog) :
                      i < j => prog[i].k < prog[j].k
               /\ \A i \in Comparisons(prog) :
                      /\ i + 1 + prog[i].jt = Len(prog)
                      /\ prog[Len(prog)] = bpf_stmt(BPF_RET_K, SECCOMP_RET_ALLOW)

C17_AllowedLast ==
    /\ seccompCall.op = "evaluate"
    /\ filter_prog.whitelist = {"openat", "chroot", "read", "mount", "bogus"}
    /\ seccompCall.arch = AUDIT_ARCH_X86_64
    /\ seccompCall.nr = SYSCALLS["read"]
    /\ seccompCall.ret = SECCOMP_RET_ALLOW

\* The filter allows the syscall of the given name on x86-64.
Allows(prog, name) ==
    bpf_run(prog, 1, 0, [arch |-> AUDIT_ARCH_X86_64, nr |-> SYSCALLS[name]])
        = SECCOMP_RET_ALLOW

\* C18: after any sequence of add_allowed and remove_allowed calls on a
\* Seccomp object that started from the default or the empty whitelist, the
\* filter apply installs allows no forbidden syscall; add_allowed on a
\* forbidden or unknown name returns False and leaves the whitelist as it
\* was.
C18_ForbiddenStaysOut ==
    [][/\ (/\ seccompCall'.op = "add_allowed"
           /\ \/ seccompCall'.name \in ABSOLUTELY_FORBIDDEN_SYSCALLS
              \/ seccompCall'.name \notin DOMAIN SYSCALLS)
          => /\ ~seccompCall'.result
             /\ seccomp'.allowed = seccomp.allowed
       /\ seccompCall'.op = "apply"
          => \A name \in ABSOLUTELY_FORBIDDEN_SYSCALLS \cap DOMAIN SYSCALLS :
                 ~Allows(filter_prog'.prog, name)]_vars

C18_ForbiddenRefused ==
    /\ seccompCall.op = "add_allowed"
    /\ seccompCall.name = "mount"
    /\ ~seccompCall.result
    /\ seccomp.allowed = {"read", "openat", "chroot"}
    /\ filter_prog.prog # <<>>

\* C11: when start fails, that is the init does not reach the exec, the
\* record's status is created again and what the attempt acquired (cgroup
\* directory, overlay directories, network configuration) is released.
C11_FailedStartReleased ==
    (LaunchHandled /\ SetupFailed /\ Loaded)
        => /\ rec.status = "created"
           /\ ~cgroupDir /\ ~overlayDir /\ ~overlayMounted
           /\ ~rec.net_ip

\* stop finds a running record whose process is alive.
StopsLive ==
    /\ Loaded /\ rec.status = "running" /\ rec.pid # NoPid
    /\ PidState(World, rec.pid) \in Alive

C13_StopRecordsStopped ==
    [][(lastCall'.op = "stop" /\ lastCall'.result = "True" /\ Loaded
            /\ rec.status = "running")
        => /\ load_container_config(rec', containerDir')
           /\ rec'.status = "stopped"
           /\ rec'.finished_at = nLaunch
           /\ rec'.finished_at # NoTime]_vars

C13_StoppedAgain ==
    /\ lastCall.op = "stop" /\ lastCall.result = "True"
    /\ lastCall.window = "expired"
    /\ nLaunch > 1
    /\ rec.status = "stopped" /\ rec.pid = nLaunch /\ rec.finished_at = nLaunch

\* C14: when the init of the latest launch was terminated by a signal, the
\* exit_code in the record of the stopped container is not 0, whoever
\* recorded it.  Stated for the states in which the launching controller
\* has finished, so that no update of the record is pending.
C14_SignalExitNonZero ==
    (parentPc = "idle" /\ Loaded /\ rec.status = "stopped"
        /\ rec.pid = nLaunch /\ exitStatus = "signal")
        => rec.exit_code # 0

\* Position of the first occurrence of a step in a trace, 0 if there is none.
Pos(trace, x) ==
    IF x \in Range(trace)
    THEN CHOOSE i \in 1..Len(trace) :
             trace[i] = x /\ \A j \in 1..(i - 1) : trace[j] # x
    ELSE 0

\* Steps of the init that enter namespaces or change the filesystem view.
NsFsSteps ==
    {"setns", "unshare", "sethostname", "overlay_mount", "overlay_fallback",
     "dev", "pivot_root", "chroot"}

\* C16: the init drops capabilities only after its namespace and filesystem
\* setup, installs the seccomp filter only after the capability step, and
\* between the installation of the filter and the exec it performs no
\* mount, pivot_root, unshare, setns, sethostname or capset.
C16_CapsThenSeccompThenExec ==
    LET caps == Pos(childTrace, "capdrop")
        filt == Pos(childTrace, "seccomp")
    IN  /\ caps > 0
           => /\ Pos(childTrace, "unshare") \in 1..(caps - 1)
              /\ \E r \in {"pivot_root", "chroot"} :
                     Pos(childTrace, r) \in 1..(caps - 1)
              /\ \A i \in caps..Len(childTrace) : childTrace[i] \notin NsFsSteps
        /\ filt > 0
           => /\ caps < filt
              /\ Pos(childTrace, "capdrop_warn") < filt
              /\ ~lcfg.rootless
                     => caps > 0 \/ Pos(childTrace, "capdrop_warn") > 0
              /\ \A i \in filt..Len(childTrace) :
                     childTrace[i] \notin NsFsSteps \cup {"capdrop"}

C16_FilteredExec ==
    /\ ~lcfg.rootless /\ lcfg.use_overlay /\ lcfg.pod_id
    /\ "overlay_mount" \in Range(childTrace)
    /\ Pos(childTrace, "capdrop") > 0
    /\ Pos(childTrace, "seccomp") > Pos(childTrace, "capdrop")
    /\ childTrace[Len(childTrace)] = "exec"

C20_CgroupBeforeFs ==
    (~lcfg.rootless /\ Range(childTrace) \cap (FsSetup \cup {"exec"}) # {})
        => /\ {"set_limits", "add_process"} \subseteq Range(childTrace)
           /\ inCgroup

\* C21: in every launch the init takes its steps in the order of the launch
\* state machine: barrier and close of the sync descriptors (S4), setns into
\* the pod's namespaces (S5), unshare and sethostname (S6), cgroup join (S7),
\* overlay (S8), /dev (S9), pivot_root or chroot (S10), chdir (S11),
\* environment (S12), capabilities (S13), seccomp (S14), exec (S15).  The
\* unshare of a rootless init is its S1 and is not placed.
C21_StepsInOrder ==
    LET S == [close_sync |-> 4, setns |-> 5, unshare |-> 6, sethostname |-> 6,
              add_process |-> 7, overlay_mount |-> 8, overlay_fallback |-> 8,
              dev |-> 9, pivot_root |-> 10, chroot |-> 10, chdir |-> 11,
              env |-> 12, capdrop |-> 13, seccomp |-> 14, exec |-> 15]
        placed == IF lcfg.rootless
                  THEN DOMAIN S \ {"unshare", "sethostname"}
                  ELSE DOMAIN S
    IN  \A i, j \in 1..Len(childTrace) :
            (i < j /\ childTrace[i] \in placed /\ childTrace[j] \in placed)
                => S[childTrace[i]] <= S[childTrace[j]]

\* C22: when the controller was interrupted after the fork in start or while
\* it waited for a foreground container, then once it has exited the init is
\* not alive, the cgroup directory and the overlay mounts and directories
\* are gone, and the record is not left in status running.
C22_InterruptReleases ==
    (parentPc = "idle" /\ nLaunch > 0
        /\ parentTrace[Len(parentTrace)] = "interrupted")
        => /\ proc \notin Alive
           /\ ~cgroupDir /\ ~overlayMounted /\ ~overlayDir
           /\ Loaded => rec.status # "running"

\* C23: no two records of the store have the same name, whether the names
\* were supplied by the caller or generated.
C23_NamesUnique ==
    \A a, b \in DOMAIN containers :
        a # b => containers[a].name # containers[b].name

\* C24: every record with a pod_id refers to a pod that exists and lists the
\* record's id among its containers.
C24_PodListsMember ==
    \A id \in DOMAIN containers :
        containers[id].pod_id # NoStr
            => /\ load_pod_config(pods, containers[id].pod_id) # NoConfig
               /\ id \in Range(load_pod_config(pods,
                                   containers[id].pod_id).containers)

\* C25: in every persisted record the limits memory_mb, max_pids and
\* cpu_quota that are set are strictly positive, and so is every value that
\* set_limits writes to a cgroup file for the record.
C25_LimitsPositive ==
    \A id \in DOMAIN containers :
        LET r == containers[id].resources
        IN  /\ r.memory_mb # None => r.memory_mb > 0
            /\ r.max_pids # None => r.max_pids > 0
            /\ r.cpu_quota # None => r.cpu_quota > 0
            /\ \A w \in cgroup_set_limits(r) : w.value > 0

\* C26: a config that was just saved is what loading by its id returns,
\* field by field, whatever the order of the directory listing.
C26_SaveLoadIdentity ==
    (storeCall.op = "create" /\ storeCall.result = "created")
        => \A order \in Orders(DOMAIN containers) :
               load_config(containers, order, storeCall.config.id)
                   = storeCall.config

\* C27: a read-modify-write (update_container_status, the network-info save
\* of start) of a record whose config.json holds a field the runtime does
\* not know succeeds, and the rewritten config.json holds that field with
\* its value.
C27_UnknownFieldKept ==
    [][(/\ storeCall'.op \in {"update_status", "save_network"}
        /\ storeCall'.token \in DOMAIN containers
        /\ "labels" \in DOMAIN containers[storeCall'.token])
        => /\ storeCall'.result = "True"
           /\ "labels" \in DOMAIN containers'[storeCall'.token]
           /\ containers'[storeCall'.token].labels
                  = containers[storeCall'.token].labels]_vars

\* C28: find_container_id(token) returns the id of the first record, in the
\* order of the directory listing, whose id starts with the token or whose
\* name is the token, and None exactly when there is no such record.
C28_FindFirstMatch ==
    storeCall.op = "find"
        => LET order == storeCall.order
               hit == {i \in 1..Len(order) :
                          \/ startswith(order[i], storeCall.token)
                          \/ containers[order[i]].name = storeCall.token}
           IN  IF hit = {} THEN storeCall.found = NoStr
               ELSE storeCall.found =
                        order[CHOOSE i \in hit : \A j \in hit : i <= j]

\* C29: every record create has persisted has a command that is not empty.
C29_CommandNonEmpty ==
    \A id \in DOMAIN containers : containers[id].command # <<>>

\* C30: if setting up the overlay fails in a launch with use_overlay, the
\* launch is not aborted: the step that leaves the filesystem block without
\* an overlay mount leaves the init alive at the pivot_root/chroot step with
\* the raw rootfs as the root it will pivot into, and the root does not
\* change between that block and the pivot_root/chroot step.
C30_OverlayFallbackGoesOn ==
    [][/\ (/\ proc = "setup" /\ childPc = "c_overlay" /\ lcfg.use_overlay
           /\ childTrace' # childTrace
           /\ "overlay_mount" \notin Range(childTrace'))
          => /\ proc' = "setup"
             /\ childPc' = "c_root"
             /\ rootfs_to_pivot' = "rootfs"
             /\ "log_error" \notin Range(childTrace')
       /\ (proc = "setup" /\ childPc = "c_root")
          => rootfs_to_pivot' = rootfs_to_pivot]_vars

\* A launch with use_overlay whose overlay setup failed has gone through
\* pivot_root or chroot on the raw rootfs and reached the exec.
C30_FellBackAndPivoted ==
    /\ lcfg.use_overlay
    /\ rootfs_to_pivot = "rootfs"
    /\ "overlay_fallback" \in Range(childTrace)
    /\ \E i, j \in 1..Len(childTrace) :
          /\ i < j
          /\ childTrace[i] = "overlay_fallback"
          /\ childTrace[j] \in {"pivot_root", "chroot"}
    /\ "exec" \in Range(childTrace)

C32_LimitsAsRecorded ==
    \A id \in DOMAIN containers :
        LET r == containers[id].resources
            W == cgroup_set_limits(r)
        IN  /\ \A w \in W : w.file \in {"cpu.max", "memory.max", "pids.max"}
            /\ \A w \in W :
                  /\ w.file = "cpu.max"
                        => /\ r.cpu_quota # None
                           /\ w.value = r.cpu_quota
                           /\ w.period = r.cpu_period
                  /\ w.file = "memory.max"
                        => /\ r.memory_mb # None
                           /\ w.value = r.memory_mb * 1048576
                  /\ w.file = "pids.max"
                        => (r.max_pids # None /\ w.value = r.max_pids)
            /\ r.cpu_quota # None => \E w \in W : w.file = "cpu.max"
            /\ r.memory_mb # None => \E w \in W : w.file = "memory.max"
            /\ r.max_pids # None => \E w \in W : w.file = "pids.max"

\* C33: start always returns in the parent, and neither side of the
\* two-pipe barrier stays blocked in its read: a controller between the fork
\* and the return of start eventually returns, a controller at its read of
\* "U" eventually leaves it, and an init at its read of "X" eventually
\* leaves it.
C33_BarrierPasses ==
    /\ (parentPc \in {"p_readU", "p_maps", "p_writeX", "p_status", "p_net",
                       "p_netsave", "p_return"})
          ~> (parentPc \in {"idle", "p_wait"})
    /\ (parentPc = "p_readU") ~> (parentPc # "p_readU")
    /\ (proc = "setup" /\ childPc = "c_barrier")
          ~> ~(proc = "setup" /\ childPc = "c_barrier")

\* start has returned from a rootless launch whose init exited before
\* writing "U" and whose map writes all failed.
C33_ReturnedAfterEof ==
    /\ lcfg.rootless
    /\ childPc = "exited"
    /\ "writeU" \notin Range(childTrace)
    /\ "eofU" \in Range(parentTrace)
    /\ "maps_warn" \in Range(parentTrace)
    /\ "return" \in Range(parentTrace)

\* C34: when another invocation has moved the record to stopped while
\* start is between its load and its save of the network information, the
\* save does not put the record back to running.
C34_StoppedStaysStopped ==
    [][(/\ parentPc = "p_netsave" /\ parentPc' = "p_return"
        /\ rec.status = "stopped")
          => rec'.status = "stopped"]_vars

\* C35: every non-rootless launch that has reached the exec of the payload
\* has restricted its capability sets before: a failed capability drop is
\* never followed by the exec.
C35_ExecOnlyAfterCapDrop ==
    (~lcfg.rootless /\ "exec" \in Range(childTrace))
        => /\ "capdrop" \in Range(childTrace)
           /\ "capdrop_warn" \notin Range(childTrace)

\* C36: for every allow-set of names of the syscall table, up to the whole
\* table, build_whitelist_filter returns a program, and every jump-true
\* offset in it is the number of comparisons that remain plus one and fits
\* the 8-bit jt field of a BPF instruction.
C36_JumpsFitByte ==
    seccompCall.op = "build_table"
        => /\ seccompCall.result
           /\ \A i \in DOMAIN filter_prog.prog :
                  /\ filter_prog.prog[i].jt = (Len(filter_prog.prog) - i) + 1
                  /\ filter_prog.prog[i].jt \in 0..255

\* The filter was built for the whole table: every name that is not
\* forbidden is compared, and the first jump is the longest.
C36_WholeTableBuilt ==
    /\ seccompCall.op = "build_table"
    /\ filter_prog.whitelist = TableNames
    /\ Len(filter_prog.prog) = SyscallTableSize - ForbiddenInTable
    /\ filter_prog.prog[1].jt = SyscallTableSize - ForbiddenInTable

\* C37: resolving the full id of a record of the store selects that record,
\* whatever the names of the other records and the order of the directory
\* listing: find_container_id returns the id itself, and
\* update_container_status rewrites that record and no other.
C37_FullIdSelectsItself ==
    [][/\ (storeCall'.op = "find" /\ storeCall'.token \in DOMAIN containers)
          => storeCall'.found = storeCall'.token
       /\ (storeCall'.op = "update_status"
               /\ storeCall'.token \in DOMAIN containers)
          => /\ storeCall'.result = "True"
             /\ containers'[storeCall'.token].status = "running"
             /\ \A id \in DOMAIN containers \ {storeCall'.token} :
                    containers'[id] = containers[id]]_vars

\* C38: whenever stop returns True for a record that was running, the init
\* the record names has terminated: the record is not marked stopped while
\* that process is alive.
C38_StoppedMeansTerminated ==
    [][(/\ lastCall = NoCall
        /\ lastCall'.op = "stop"
        /\ lastCall'.result = "True"
        /\ rec.status = "running")
          => /\ rec'.status = "stopped"
             /\ PidState(World, rec.pid)' \notin Alive]_vars

\* C39: stop on a record whose status is created or stopped returns True,
\* sends no signal and leaves the record as it was (status, pid, exit_code,
\* finished_at and every other field), and the process with it.
C39_StopLeavesNotRunning ==
    [][(/\ lastCall = NoCall
        /\ lastCall'.op = "stop"
        /\ load_container_config(rec, containerDir)
        /\ rec.status \in {"created", "stopped"})
          => /\ lastCall'.result = "True"
             /\ lastCall'.sigs = <<>>
             /\ rec' = rec
             /\ proc' = proc]_vars

\* stop has returned on a record that is still created.
C39_StopOnCreated ==
    /\ lastCall.op = "stop"
    /\ lastCall.result = "True"
    /\ lastCall.sigs = <<>>
    /\ rec.present
    /\ rec.status = "created"
    /\ rec.pid = NoPid

\* C40: the init holds no end of the two synchronization pipes when it
\* execs the payload, and the controller holds none once start has
\* returned the pid.
C40_NoSyncFdLeft ==
    /\ proc = "payload" => childFds = {}
    /\ "exec" \in Range(childTrace) => childFds = {}
    /\ "return" \in Range(parentTrace) => parentFds = {}

\* A rootless launch went through both pipes, the init has execed the
\* payload and start has returned.
C40_ExecedAndReturned ==
    /\ lcfg.rootless
    /\ proc = "payload"
    /\ "writeU" \in Range(childTrace)
    /\ "readX" \in Range(childTrace)
    /\ "exec" \in Range(childTrace)
    /\ "return" \in Range(parentTrace)
    /\ childFds = {}
    /\ parentFds = {}

====
